---- MODULE Spec2Model ----
(***************************************************************************)
(* A model of OrderLimitPlacer: scripts that quote, build, sign, simulate  *)
(* and fill 1inch limit orders on Polygon.                                 *)
(*                                                                         *)
(* The specifications share the variables:                                 *)
(*   SpecSig   parseSignatureToCompact applied to bounded signature texts  *)
(*   SpecFmt   formatTokenAmount applied to bounded amounts and decimals   *)
(*   Spec      the workflows of the scripts against a chain whose answers  *)
(*             (balances, allowances, receipts, failures) are chosen       *)
(*             nondeterministically                                        *)
(*   SpecDecode, SpecQuote, SpecOrder, SpecExecute                         *)
(*             one pure function each, applied to bounded arguments        *)
(*                                                                         *)
(* Texts are sequences of one-character strings, so that slicing, padding, *)
(* case and non-digit characters are modelled as the code sees them.       *)
(* 256-bit integers are sequences of hexadecimal digits (values 0..15),    *)
(* most significant first and without leading zeros, as a bigint prints.   *)
(***************************************************************************)
EXTENDS Integers, Sequences, FiniteSets, TLC

VARIABLES
    sigIn,      \* SpecSig: the text handed to parseSignatureToCompact
    sigOut,     \* SpecSig: what the call produced (NoResult before the call)
    fmtIn,      \* SpecFmt: [amount, decimals, symbol] handed to formatTokenAmount
    fmtOut,     \* SpecFmt: the text it returned (NoResult before the call)
    fnIn,       \* SpecDecode, SpecQuote, SpecOrder, SpecExecute: the argument of the call
    fnOut       \* the same: what the call returned (NoResult before the call)

VARIABLES
    wf,         \* Spec: the script (or library entry) this run executes
    opts,       \* Spec: [execute, skipApproval, tty]: --execute, the option of
                \* generateOrder, and whether stdin is a terminal
    env,        \* Spec: which variables the environment defines: the private keys
                \* [maker, taker] and the URLs [rpcUrl, fillerUrl]
    pc,         \* Spec: the step the run is at
    phase,      \* Spec: "maker" while the order is made, "taker" while it is filled
    raw,        \* Spec: the amount entered, in units of the maker token
    making,     \* Spec: makingAmount (the quote's inputAmount)
    taking,     \* Spec: takingAmount (the quote's outputAmount, or the loaded order's)
    order,      \* Spec: the order at hand: [present, sigOk, takerAsset]
    allowance,  \* Spec: the chain: each party's allowance to the protocol contract
    cur,        \* Spec: currentAllowance as ensureTokenApproval read it
    txHash,     \* Spec: whether ensureTokenApproval holds an approval hash
    log,        \* Spec: what the run did so far, in order
    status,     \* Spec: "running", or how the process ended
    err,        \* Spec: the failure reported, "" when none
    result      \* Spec: what executeFill returned to main (NoReturn before)

flowVars == <<wf, opts, env, pc, phase, raw, making, taking, order, allowance,
              cur, txHash, log, status, err, result>>

vars == <<sigIn, sigOut, fmtIn, fmtOut, fnIn, fnOut, flowVars>>

sigVars == <<sigIn, sigOut>>
fmtVars == <<fmtIn, fmtOut>>
fnVars == <<fnIn, fnOut>>

NoResult == [kind |-> "none"]
NoReturn == [fn |-> "none", success |-> FALSE, txHash |-> FALSE,
             hasError |-> FALSE, error |-> ""]

----------------------------------------------------------------------------
(* Text helpers: the JavaScript string operations the code uses.           *)

Min(a, b) == IF a <= b THEN a ELSE b
Max(a, b) == IF a >= b THEN a ELSE b

\* String.prototype.slice(from, to) with 0 <= from, to (0-based, to exclusive)
Slice(s, from, to) == SubSeq(s, from + 1, Min(to, Len(s)))

\* String.prototype.startsWith
StartsWith(s, p) == Len(s) >= Len(p) /\ SubSeq(s, 1, Len(p)) = p

\* n copies of the character c
Rep(c, n) == [i \in 1..n |-> c]

\* String.prototype.padStart(n, c) for a one-character pad
PadStart(s, n, c) == IF Len(s) >= n THEN s ELSE Rep(c, n - Len(s)) \o s

HexLower == <<"0","1","2","3","4","5","6","7","8","9","a","b","c","d","e","f">>
HexUpper == <<"0","1","2","3","4","5","6","7","8","9","A","B","C","D","E","F">>

IsHexChar(c) == \E i \in 1..16 : HexLower[i] = c \/ HexUpper[i] = c

\* the value of a hexadecimal digit character, either case
HexVal(c) == (CHOOSE i \in 1..16 : HexLower[i] = c \/ HexUpper[i] = c) - 1

IsHexText(s) == \A i \in 1..Len(s) : IsHexChar(s[i])

RECURSIVE StripLeadingZeros(_)
StripLeadingZeros(ds) ==
    IF ds = <<>> THEN <<>>
    ELSE IF ds[1] = 0 THEN StripLeadingZeros(Tail(ds))
    ELSE ds

\* BigInt("0x" + s): the value of a text of hexadecimal digits
BigIntOfHex(s) == StripLeadingZeros([i \in 1..Len(s) |-> HexVal(s[i])])

\* bigint.toString(16): lowercase digits, "0" for zero
BigIntToString16(n) ==
    IF n = <<>> THEN <<"0">> ELSE [i \in 1..Len(n) |-> HexLower[n[i] + 1]]

----------------------------------------------------------------------------
(* Signature compaction: src/lib/order.ts, parseSignatureToCompact.        *)

SigHexLen == 130
RHexLen == 64
SHexEnd == 128
VsHexLen == 64
RecoveryHigh == 28
HighBit == 255

Prefix0x == <<"0", "x">>

NoSig == [kind |-> "none", r |-> <<>>, vs |-> <<>>, error |-> ""]
SigOk(r, vs) == [kind |-> "ok", r |-> r, vs |-> vs, error |-> ""]
SigThrow(e) == [kind |-> "throw", r |-> <<>>, vs |-> <<>>, error |-> e]

\* the value of a short text of hexadecimal digits, as a number
RECURSIVE HexTextValue(_)
HexTextValue(s) ==
    IF s = <<>> THEN 0
    ELSE 16 * HexTextValue(SubSeq(s, 1, Len(s) - 1)) + HexVal(s[Len(s)])

\* the length of the longest prefix of s made of hexadecimal digits
RECURSIVE HexPrefixLen(_)
HexPrefixLen(s) ==
    IF s = <<>> \/ ~IsHexChar(s[1]) THEN 0 ELSE 1 + HexPrefixLen(Tail(s))

\* parseInt(t, 16): an optional 0x or 0X is skipped, then the longest run of
\* hexadecimal digits is read; no digit at all gives NaN
ParseInt16(t) ==
    LET body == IF StartsWith(t, <<"0", "x">>) \/ StartsWith(t, <<"0", "X">>)
                THEN Slice(t, 2, Len(t)) ELSE t
        k == HexPrefixLen(body)
    IN  IF k = 0 THEN [nan |-> TRUE, val |-> 0]
        ELSE [nan |-> FALSE, val |-> HexTextValue(SubSeq(body, 1, k))]

\* 2^k for a bit position inside one hexadecimal digit
Pow2(k) == CASE k = 0 -> 1 [] k = 1 -> 2 [] k = 2 -> 4 [] OTHER -> 8

\* a plausible slip: the bit below the top one
BigIntOrBitBelow(n, bit) ==
    LET width == Max(Len(n), ((bit - 1) \div 4) + 1)
        p == PadStart(n, width, 0)
        at == width - ((bit - 1) \div 4)
        m == Pow2((bit - 1) % 4)
    IN  StripLeadingZeros(
            [p EXCEPT ![at] = IF (p[at] \div m) % 2 = 1 THEN p[at] ELSE p[at] + m])

\* n | (1n << bit), on digit sequences
BigIntOrBit(n, bit) ==
    LET width == Max(Len(n), (bit \div 4) + 1)
        p == PadStart(n, width, 0)
        at == width - (bit \div 4)
        m == Pow2(bit % 4)
    IN  StripLeadingZeros(
            [p EXCEPT ![at] = IF (p[at] \div m) % 2 = 1 THEN p[at] ELSE p[at] + m])

\* a plausible slip: the branch taken for the other recovery byte
CompactVsWrongByte(sBigInt, v) ==
    IF ~v.nan /\ v.val = RecoveryHigh - 1 THEN BigIntOrBit(sBigInt, HighBit)
    ELSE sBigInt

\* const vsBigInt = v === 28 ? sBigInt | (1n << 255n) : sBigInt
CompactVs(sBigInt, v) ==
    IF ~v.nan /\ v.val = RecoveryHigh THEN BigIntOrBit(sBigInt, HighBit)
    ELSE sBigInt

\* a plausible slip: only texts that are too short are refused
SigLengthBadShortOnly(sig) == Len(sig) < SigHexLen

\* if (sig.length !== 130)
SigLengthBad(sig) == Len(sig) # SigHexLen

parseSignatureToCompact(signature) ==
    LET sig == IF StartsWith(signature, Prefix0x)
               THEN Slice(signature, 2, Len(signature)) ELSE signature
    IN  IF SigLengthBad(sig)
        THEN SigThrow("Invalid signature length")
        ELSE LET r == Prefix0x \o Slice(sig, 0, RHexLen)
                 s == Slice(sig, RHexLen, SHexEnd)
                 v == ParseInt16(Slice(sig, SHexEnd, SigHexLen))
             IN  IF ~IsHexText(s)
                 THEN SigThrow("SyntaxError")  \* BigInt(`0x${s}`) refuses the text
                 ELSE LET vsBigInt == CompactVs(BigIntOfHex(s), v)
                          vs == Prefix0x \o
                                PadStart(BigIntToString16(vsBigInt), VsHexLen, "0")
                      IN  SigOk(r, vs)

----------------------------------------------------------------------------
(* Amount formatting: src/config.ts, formatTokenAmount.                    *)

DecDigits == <<"0","1","2","3","4","5","6","7","8","9">>

RECURSIVE Pow10(_)
Pow10(k) == IF k = 0 THEN 1 ELSE 10 * Pow10(k - 1)

\* bigint division truncates toward zero and the remainder takes the sign of
\* the dividend
TruncDiv(a, b) == IF a >= 0 THEN a \div b ELSE -((-a) \div b)
TruncRem(a, b) == a - b * TruncDiv(a, b)

RECURSIVE NatToString(_)
NatToString(n) ==
    IF n < 10 THEN <<DecDigits[n + 1]>>
    ELSE NatToString(n \div 10) \o <<DecDigits[(n % 10) + 1]>>

\* bigint.toString(): a minus sign in front of a negative value
BigIntToString(n) == IF n < 0 THEN <<"-">> \o NatToString(-n) ELSE NatToString(n)

\* a plausible slip: the zeros are kept
KeepTrailingZeros(s) == s

\* .replace(/0+$/, "")
RECURSIVE StripTrailingZeros(_)
StripTrailingZeros(s) ==
    IF s # <<>> /\ s[Len(s)] = "0" THEN StripTrailingZeros(SubSeq(s, 1, Len(s) - 1))
    ELSE s

formatTokenAmount(amount, decimals, symbol) ==
    LET divisor == Pow10(decimals)
        whole == TruncDiv(amount, divisor)
        fraction == TruncRem(amount, divisor)
        fractionStr == StripTrailingZeros(PadStart(BigIntToString(fraction), decimals, "0"))
        formatted == IF fractionStr # <<>>
                     THEN BigIntToString(whole) \o <<".">> \o fractionStr
                     ELSE BigIntToString(whole)
    IN  IF symbol # <<>> THEN formatted \o <<" ">> \o symbol ELSE formatted

----------------------------------------------------------------------------
(* SpecSig: parseSignatureToCompact on signature texts.                    *)

MaxLenDelta == 2

SigPrefixes == {<<>>, <<"0", "x">>, <<"0", "X">>}
RFills == {"0", "a", "F", "z"}
STops == {"0", "7", "8", "f", "C"}
SFills == {"0", "1", "E", "z"}
VTexts == {<<"1","b">>, <<"1","c">>, <<"1","B">>, <<"1","C">>,
           <<"0","0">>, <<"1","d">>, <<"z","z">>, <<"0","x">>}

\* a text of the signature's shape, shortened or lengthened by d characters
SigText(prefix, rFill, sTop, sFill, v, d) ==
    LET full == prefix \o Rep(rFill, RHexLen) \o <<sTop>>
                \o Rep(sFill, SHexEnd - RHexLen - 1) \o v
    IN  IF d <= 0 THEN SubSeq(full, 1, Len(full) + d) ELSE full \o Rep("0", d)

IdleSig == sigIn = <<>> /\ sigOut = NoSig
IdleFlow ==
    /\ wf = "none" /\ pc = "done" /\ phase = "maker" /\ status = "idle" /\ err = ""
    /\ opts = [execute |-> FALSE, skipApproval |-> FALSE, tty |-> TRUE]
    /\ env = [maker |-> TRUE, taker |-> TRUE, rpcUrl |-> TRUE, fillerUrl |-> TRUE]
    /\ raw = 0 /\ making = 0 /\ taking = 0 /\ cur = 0 /\ txHash = FALSE
    /\ order = [present |-> FALSE, sigOk |-> FALSE, takerAsset |-> <<>>]
    /\ allowance = [maker |-> 0, taker |-> 0]
    /\ log = <<>>
    /\ result = NoReturn
IdleFmt == fmtIn = [amount |-> 0, decimals |-> 0, symbol |-> <<>>] /\ fmtOut = NoResult
IdleFn == fnIn = NoResult /\ fnOut = NoResult

InitSig ==
    /\ \E prefix \in SigPrefixes, rFill \in RFills, sTop \in STops,
          sFill \in SFills, v \in VTexts, d \in -MaxLenDelta..MaxLenDelta :
            sigIn = SigText(prefix, rFill, sTop, sFill, v, d)
    /\ sigOut = NoSig
    /\ IdleFmt
    /\ IdleFn
    /\ IdleFlow

ParseSignature ==
    /\ sigOut = NoSig
    /\ sigOut' = parseSignatureToCompact(sigIn)
    /\ UNCHANGED <<sigIn, fmtVars, fnVars, flowVars>>

NextSig == ParseSignature

SpecSig == InitSig /\ [][NextSig]_vars

----------------------------------------------------------------------------
(* Claims about signature compaction (under SpecSig).                      *)

\* the text after removing an optional leading 0x
SigBody(t) == IF StartsWith(t, <<"0", "x">>) THEN SubSeq(t, 3, Len(t)) ELSE t

\* the 64 digits of a 32-byte field starting after `skip` characters
FieldDigits(t, skip) == [i \in 1..64 |-> HexVal(t[skip + i])]

\* a 256-bit value, as 64 digits, with bit 255 set or cleared
WithTopBit(ds) == [ds EXCEPT ![1] = IF ds[1] >= 8 THEN ds[1] ELSE ds[1] + 8]
WithoutTopBit(ds) == [ds EXCEPT ![1] = IF ds[1] >= 8 THEN ds[1] - 8 ELSE ds[1]]

IsHex32(t) ==
    /\ Len(t) = 66
    /\ SubSeq(t, 1, 2) = <<"0", "x">>
    /\ IsHexText(SubSeq(t, 3, 66))

\* the call was made on 130 hexadecimal digits, with or without 0x
SigWellFormed ==
    /\ sigOut # NoSig
    /\ Len(SigBody(sigIn)) = 130
    /\ IsHexText(SigBody(sigIn))

SigRecoveryByte == HexTextValue(SubSeq(SigBody(sigIn), 129, 130))

\* C1: on 130 hexadecimal digits (with or without 0x) the result is r = the
\* first 32 bytes and vs = s with bit 255 set when the recovery byte is 28,
\* vs = s otherwise (27 included); r and vs are 0x followed by 64 digits.
C1_CompactFields ==
    SigWellFormed =>
        LET b == SigBody(sigIn)
            s == FieldDigits(b, 64)
        IN  /\ sigOut.kind = "ok"
            /\ sigOut.r = <<"0", "x">> \o SubSeq(b, 1, 64)
            /\ IsHex32(sigOut.r)
            /\ IsHex32(sigOut.vs)
            /\ SigRecoveryByte = 28 => FieldDigits(sigOut.vs, 2) = WithTopBit(s)
            /\ SigRecoveryByte # 28 => FieldDigits(sigOut.vs, 2) = s

\* recovery byte 28 on an s whose bit 255 was clear: the bit got set
C1_Witness ==
    /\ SigWellFormed
    /\ SigRecoveryByte = 28
    /\ FieldDigits(SigBody(sigIn), 64)[1] < 8
    /\ sigOut.kind = "ok"
    /\ FieldDigits(sigOut.vs, 2)[1] >= 8

\* (r, s, v) rebuilt from (r, vs): r as is, s = vs with bit 255 cleared,
\* v = 27 + bit 255 of vs
SigRoundTrips ==
    LET b == SigBody(sigIn)
        vs == FieldDigits(sigOut.vs, 2)
    IN  /\ sigOut.kind = "ok"
        /\ sigOut.r = <<"0", "x">> \o SubSeq(b, 1, 64)
        /\ WithoutTopBit(vs) = FieldDigits(b, 64)
        /\ 27 + (IF vs[1] >= 8 THEN 1 ELSE 0) = SigRecoveryByte

\* C2 as stated: the round trip holds for any r, any s and recovery byte 27
\* or 28.
C2_RoundTripAnyS ==
    (SigWellFormed /\ SigRecoveryByte \in {27, 28}) => SigRoundTrips

\* C2 amended: the round trip holds for any r, any s whose bit 255 is clear
\* (a low s, as signers produce) and recovery byte 27 or 28.
C2_RoundTripLowS ==
    (/\ SigWellFormed
     /\ SigRecoveryByte \in {27, 28}
     /\ FieldDigits(SigBody(sigIn), 64)[1] < 8) => SigRoundTrips

\* a low s with recovery byte 28 went through and came back
C2_Witness ==
    /\ SigWellFormed
    /\ SigRecoveryByte = 28
    /\ FieldDigits(SigBody(sigIn), 64)[1] = 7
    /\ SigRoundTrips

\* C3 as stated: a stripped length other than 130 is rejected and a stripped
\* length of exactly 130 is accepted, whatever the characters.
C3_LengthDecidesAlone ==
    sigOut # NoSig =>
        /\ Len(SigBody(sigIn)) # 130 => sigOut.kind = "throw"
        /\ Len(SigBody(sigIn)) = 130 => sigOut.kind = "ok"

\* C3 amended: a stripped length other than 130 is rejected as an invalid
\* length, and a stripped length of exactly 130 is accepted when characters
\* 65 to 128 (the s field) are hexadecimal digits.
C3_LengthAndDigits ==
    sigOut # NoSig =>
        /\ Len(SigBody(sigIn)) # 130 =>
              sigOut = SigThrow("Invalid signature length")
        /\ (/\ Len(SigBody(sigIn)) = 130
            /\ IsHexText(SubSeq(SigBody(sigIn), 65, 128))) => sigOut.kind = "ok"

\* a text one character too long was rejected
C3_Witness ==
    /\ Len(SigBody(sigIn)) = 131
    /\ sigOut = SigThrow("Invalid signature length")

----------------------------------------------------------------------------
(* SpecFmt: formatTokenAmount on amounts and decimals.                     *)

MaxAmount == 1100
MaxNegAmount == 120
MaxDecimals == 3

FmtSymbols == {<<>>, <<"U", "S", "D", "C">>}

InitFmt ==
    /\ \E a \in -MaxNegAmount..MaxAmount, d \in 0..MaxDecimals, sym \in FmtSymbols :
            fmtIn = [amount |-> a, decimals |-> d, symbol |-> sym]
    /\ fmtOut = NoResult
    /\ IdleSig
    /\ IdleFn
    /\ IdleFlow

FormatAmount ==
    /\ fmtOut = NoResult
    /\ fmtOut' = [kind |-> "text",
                  text |-> formatTokenAmount(fmtIn.amount, fmtIn.decimals, fmtIn.symbol)]
    /\ UNCHANGED <<fmtIn, sigVars, fnVars, flowVars>>

NextFmt == FormatAmount

SpecFmt == InitFmt /\ [][NextFmt]_vars

----------------------------------------------------------------------------
(* Claims about formatTokenAmount (under SpecFmt).                         *)

IsDecChar(c) == \E i \in 1..10 : DecDigits[i] = c
DecVal(c) == (CHOOSE i \in 1..10 : DecDigits[i] = c) - 1
IsDecText(s) == \A i \in 1..Len(s) : IsDecChar(s[i])

RECURSIVE DecTextValue(_)
DecTextValue(s) ==
    IF s = <<>> THEN 0
    ELSE 10 * DecTextValue(SubSeq(s, 1, Len(s) - 1)) + DecVal(s[Len(s)])

\* the positions of character c in s
Positions(s, c) == {i \in 1..Len(s) : s[i] = c}

\* the output up to the blank that precedes the symbol
NumericPart(s) ==
    IF Positions(s, " ") = {} THEN s
    ELSE SubSeq(s, 1, (CHOOSE i \in Positions(s, " ") :
                          \A j \in Positions(s, " ") : i <= j) - 1)

\* a decimal number read back with `decimals` fractional digits: an optional
\* minus sign, digits, and optionally a point followed by at most `decimals`
\* digits; anything else does not parse
ParseDecimal(s, decimals) ==
    LET neg == s # <<>> /\ s[1] = "-"
        body == IF neg THEN Tail(s) ELSE s
        dots == Positions(body, ".")
        dot == IF dots = {} THEN Len(body) + 1 ELSE CHOOSE i \in dots : TRUE
        int == SubSeq(body, 1, dot - 1)
        frac == SubSeq(body, dot + 1, Len(body))
    IN  IF /\ Cardinality(dots) <= 1
           /\ int # <<>> /\ IsDecText(int)
           /\ IsDecText(frac) /\ Len(frac) <= decimals
        THEN [ok |-> TRUE,
              val |-> (IF neg THEN -1 ELSE 1) *
                      (DecTextValue(int) * Pow10(decimals)
                       + DecTextValue(frac) * Pow10(decimals - Len(frac)))]
        ELSE [ok |-> FALSE, val |-> 0]

FmtRoundTrips ==
    LET back == ParseDecimal(NumericPart(fmtOut.text), fmtIn.decimals)
    IN  back.ok /\ back.val = fmtIn.amount

\* C4: for every integer amount and decimals >= 0, the output of
\* formatTokenAmount read back with the same decimals is the amount.
C4_RoundTripEveryAmount == fmtOut # NoResult => FmtRoundTrips

\* the same for the amounts a token balance can take (none below zero)
FmtRoundTripNonNegative == (fmtOut # NoResult /\ fmtIn.amount >= 0) => FmtRoundTrips

\* C5: for amount >= 0 the numeric part has a decimal point exactly when the
\* amount is no multiple of 10^decimals, and then its last digit is not 0
\* (so it never ends with a point or a zero fractional digit).
C5_NoTrailingZeros ==
    (fmtOut # NoResult /\ fmtIn.amount >= 0) =>
        LET n == NumericPart(fmtOut.text)
            dots == Positions(n, ".")
        IN  /\ n # <<>>
            /\ (dots = {}) <=> (fmtIn.amount % Pow10(fmtIn.decimals) = 0)
            /\ dots # {} => n[Len(n)] \notin {"0", "."}

\* an amount below 10^decimals with zeros to strip: 50 with 3 decimals
C5_Witness ==
    /\ fmtIn.amount = 50 /\ fmtIn.decimals = 3
    /\ fmtOut # NoResult
    /\ NumericPart(fmtOut.text) = <<"0", ".", "0", "5">>

----------------------------------------------------------------------------
(* The fixed-rate quote: src/lib/quote.ts, getQuote and fetchQuoteFromApi. *)
(* Its output exceeds 32 bits, so it is a bigint in limbs of four decimal  *)
(* digits (values 0..9999), most significant first, without leading zero   *)
(* limbs; zero is <<>>.                                                    *)

LimbDigits == 2 + 2
LimbBase == Pow10(LimbDigits)

Front(s) == SubSeq(s, 1, Len(s) - 1)

RECURSIVE BigOfNat(_)
BigOfNat(n) == IF n = 0 THEN <<>> ELSE BigOfNat(n \div LimbBase) \o <<n % LimbBase>>

RECURSIVE BigAddCarry(_, _, _)
BigAddCarry(a, b, carry) ==
    IF a = <<>> /\ b = <<>>
    THEN IF carry = 0 THEN <<>> ELSE <<carry>>
    ELSE LET x == IF a = <<>> THEN 0 ELSE a[Len(a)]
             y == IF b = <<>> THEN 0 ELSE b[Len(b)]
             s == x + y + carry
         IN  BigAddCarry(IF a = <<>> THEN a ELSE Front(a),
                         IF b = <<>> THEN b ELSE Front(b), s \div LimbBase)
                 \o <<s % LimbBase>>

BigAdd(a, b) == StripLeadingZeros(BigAddCarry(a, b, 0))

RECURSIVE BigMulLimb(_, _, _)
BigMulLimb(a, d, carry) ==
    IF a = <<>>
    THEN IF carry = 0 THEN <<>> ELSE <<carry>>
    ELSE LET p == a[Len(a)] * d + carry
         IN  BigMulLimb(Front(a), d, p \div LimbBase) \o <<p % LimbBase>>

\* bigint *
RECURSIVE BigMul(_, _)
BigMul(a, b) ==
    IF b = <<>> THEN <<>>
    ELSE LET upper == BigMul(a, Front(b))
         IN  BigAdd(IF upper = <<>> THEN <<>> ELSE upper \o <<0>>,
                    StripLeadingZeros(BigMulLimb(a, b[Len(b)], 0)))

\* bigint **
RECURSIVE BigPow(_, _)
BigPow(a, e) == IF e = 0 THEN <<1>> ELSE BigMul(BigPow(a, e - 1), a)

\* bigint.toString() of a non-negative value
BigToString(ls) ==
    IF ls = <<>> THEN <<"0">>
    ELSE NatToString(ls[1]) \o
         (IF Len(ls) = 1 THEN <<>>
          ELSE [i \in 1..((Len(ls) - 1) * LimbDigits) |->
                   PadStart(NatToString(ls[2 + ((i - 1) \div LimbDigits)]),
                            LimbDigits, "0")[1 + ((i - 1) % LimbDigits)]])

RateNumerator == 5
DecimalExponent == 12

\* const decimalAdjustment = 10n ** 12n
decimalAdjustment == BigPow(BigOfNat(10), DecimalExponent)

\* a plausible slip: the decimals' difference is forgotten
fetchQuoteUnadjusted(inputAmountRaw) ==
    BigMul(BigOfNat(inputAmountRaw), BigOfNat(RateNumerator))

\* return inputAmountRaw * rateNumerator * decimalAdjustment
fetchQuoteFromApi(inputAmountRaw) ==
    BigMul(BigMul(BigOfNat(inputAmountRaw), BigOfNat(RateNumerator)), decimalAdjustment)

\* getQuote of the fixed rate: the input as given, the output as fetched
getQuote(inputAmountRaw) ==
    [inputAmount |-> inputAmountRaw, outputAmount |-> fetchQuoteFromApi(inputAmountRaw)]

RECURSIVE BigValue(_)
BigValue(ls) == IF ls = <<>> THEN 0 ELSE LimbBase * BigValue(Front(ls)) + ls[Len(ls)]

\* the workflows count taker amounts in units of 10^12 of the taker token's
\* smallest unit, which every fixed-rate output is a multiple of
TakerUnits(outputAmount) ==
    BigValue(SubSeq(outputAmount, 1, Len(outputAmount) - (DecimalExponent \div LimbDigits)))

(* SpecQuote: getQuote applied to bounded amounts.                         *)

MaxQuoteInput == 120
\* 1 and 100 tokens of six decimals
OneToken == Pow10(6)
HundredTokens == 100 * OneToken

InitQuote ==
    /\ fnIn \in (0..MaxQuoteInput) \cup {OneToken, HundredTokens}
    /\ fnOut = NoResult
    /\ IdleSig /\ IdleFmt /\ IdleFlow

ApplyQuote ==
    /\ fnOut = NoResult
    /\ fnOut' = [kind |-> "quote", quote |-> getQuote(fnIn)]
    /\ UNCHANGED <<fnIn, sigVars, fmtVars, flowVars>>

NextQuote == ApplyQuote

SpecQuote == InitQuote /\ [][NextQuote]_vars

\* the decimal text of n * 10^k
TimesPow10Text(n, k) == IF n = 0 THEN <<"0">> ELSE NatToString(n) \o Rep("0", k)

\* C15: the fixed-rate getQuote returns the input unchanged and the output
\* a * 5 * 10^12: five tokens of 18 decimals for each token of 6 decimals;
\* 100 tokens (100000000) give 500 * 10^18.
C15_FixedRateQuote ==
    fnOut # NoResult =>
        /\ fnOut.quote.inputAmount = fnIn
        /\ BigToString(fnOut.quote.outputAmount) = TimesPow10Text(fnIn * 5, 12)
        /\ fnIn = 100000000 =>
              BigToString(fnOut.quote.outputAmount) = TimesPow10Text(500, 18)

\* 100 tokens have been quoted
C15_Witness ==
    /\ fnIn = HundredTokens
    /\ fnOut # NoResult
    /\ BigToString(fnOut.quote.outputAmount) = <<"5">> \o Rep("0", 20)

----------------------------------------------------------------------------
(* Revert decoding: src/test/fill.ts, decodeRevertError, over the errors   *)
(* of LIMIT_ORDER_PROTOCOL_ABI (src/lib/abi.ts).  A payload is what        *)
(* result.error?.data may hold: undefined, or a text.                      *)

Undefined == [defined |-> FALSE, text |-> <<>>]
Defined(s) == [defined |-> TRUE, text |-> s]

NoRevertDataText ==
    <<"U", "n", "k", "n", "o", "w", "n", " ", "e", "r", "r", "o", "r", " ",
      "(", "n", "o", " ", "r", "e", "v", "e", "r", "t", " ", "d", "a", "t",
      "a", ")">>
UnknownSelectorText ==
    <<"U", "n", "k", "n", "o", "w", "n", " ", "e", "r", "r", "o", "r", " ",
      "w", "i", "t", "h", " ", "s", "e", "l", "e", "c", "t", "o", "r", " ">>

\* the error items of LIMIT_ORDER_PROTOCOL_ABI, all without inputs.  A selector
\* is the first four bytes of keccak256("Name()"), which is not computed here:
\* each error stands under a distinct eight-digit selector of its own.
ProtocolErrors == <<
    [name |-> <<"B", "a", "d", "S", "i", "g", "n", "a", "t", "u", "r", "e">>,
     selector |-> <<"e", "0", "0", "0", "0", "0", "0", "1">>, inputs |-> 0],
    [name |-> <<"O", "r", "d", "e", "r", "E", "x", "p", "i", "r", "e", "d">>,
     selector |-> <<"e", "0", "0", "0", "0", "0", "0", "2">>, inputs |-> 0],
    [name |-> <<"I", "n", "v", "a", "l", "i", "d", "a", "t", "e", "d", "O", "r", "d",
      "e", "r">>,
     selector |-> <<"e", "0", "0", "0", "0", "0", "0", "3">>, inputs |-> 0],
    [name |-> <<"T", "a", "k", "i", "n", "g", "A", "m", "o", "u", "n", "t", "E", "x",
      "c", "e", "e", "d", "e", "d">>,
     selector |-> <<"e", "0", "0", "0", "0", "0", "0", "4">>, inputs |-> 0],
    [name |-> <<"M", "a", "k", "i", "n", "g", "A", "m", "o", "u", "n", "t", "T", "o",
      "o", "L", "o", "w">>,
     selector |-> <<"e", "0", "0", "0", "0", "0", "0", "5">>, inputs |-> 0],
    [name |-> <<"P", "r", "i", "v", "a", "t", "e", "O", "r", "d", "e", "r">>,
     selector |-> <<"e", "0", "0", "0", "0", "0", "0", "6">>, inputs |-> 0],
    [name |-> <<"P", "r", "e", "d", "i", "c", "a", "t", "e", "I", "s", "N", "o", "t",
      "T", "r", "u", "e">>,
     selector |-> <<"e", "0", "0", "0", "0", "0", "0", "7">>, inputs |-> 0],
    [name |-> <<"T", "r", "a", "n", "s", "f", "e", "r", "F", "r", "o", "m", "M", "a",
      "k", "e", "r", "T", "o", "T", "a", "k", "e", "r", "F", "a", "i", "l",
      "e", "d">>,
     selector |-> <<"e", "0", "0", "0", "0", "0", "0", "8">>, inputs |-> 0],
    [name |-> <<"T", "r", "a", "n", "s", "f", "e", "r", "F", "r", "o", "m", "T", "a",
      "k", "e", "r", "T", "o", "M", "a", "k", "e", "r", "F", "a", "i", "l",
      "e", "d">>,
     selector |-> <<"e", "0", "0", "0", "0", "0", "0", "9">>, inputs |-> 0] >>

\* decodeErrorResult also knows Solidity's Error(string) and Panic(uint256)
SolidityErrors == <<
    [name |-> <<"E", "r", "r", "o", "r">>,
     selector |-> <<"0", "8", "c", "3", "7", "9", "a", "0">>, inputs |-> 1],
    [name |-> <<"P", "a", "n", "i", "c">>,
     selector |-> <<"4", "e", "4", "8", "7", "b", "7", "1">>, inputs |-> 1] >>

SelectorTextLen == 10
\* four bytes, the ten characters less the 0x
SelectorHexLen == SelectorTextLen - Len(Prefix0x)
\* one 32-byte ABI word, as wide as r and vs
WordHexLen == VsHexLen

\* viem's slice(data, 0, 4): the first four bytes after 0x (fewer when the
\* payload is shorter), without its prefix
PayloadSelector(data) ==
    LET body == IF StartsWith(data, Prefix0x) THEN Slice(data, 2, Len(data)) ELSE data
    IN  Slice(body, 0, SelectorHexLen)

\* viem's decodeErrorResult over the ABI: throws on a selector it does not
\* find and on arguments it cannot read; an error without inputs has no args.
\* The one argument of Panic is printed as String(bigint) prints it; the text
\* of Error(string) is not decoded here and stands as the word it starts at.
decodeErrorResult(abi, data) ==
    LET known == abi \o SolidityErrors
        sel == PayloadSelector(data)
        hits == {i \in DOMAIN known : known[i].selector = sel}
    IN  IF hits = {} THEN [threw |-> TRUE, errorName |-> <<>>, args |-> <<>>]
        ELSE LET item == known[CHOOSE i \in hits : \A j \in hits : i <= j]
                 tail == Slice(data, SelectorTextLen, Len(data))
             IN  IF item.inputs = 0
                 THEN [threw |-> FALSE, errorName |-> item.name, args |-> <<>>]
                 ELSE IF Len(tail) < WordHexLen \/ ~IsHexText(tail)
                 THEN [threw |-> TRUE, errorName |-> <<>>, args |-> <<>>]
                 ELSE [threw |-> FALSE, errorName |-> item.name,
                       args |-> <<NatToString(HexTextValue(Slice(tail, 0, WordHexLen)))>>]

\* args.map((a) => String(a)).join(", ")
RECURSIVE JoinArgs(_)
JoinArgs(args) ==
    IF args = <<>> THEN <<>>
    ELSE IF Len(args) = 1 THEN args[1]
    ELSE args[1] \o <<",", " ">> \o JoinArgs(Tail(args))

\* a plausible slip: the selector is cut after eight characters
RawSelectorShort(errorData) == Slice(errorData, 0, SelectorHexLen)

\* errorData.slice(0, 10)
RawSelector(errorData) == Slice(errorData, 0, SelectorTextLen)

\* `${decoded.errorName}()`
ErrorWithoutArgs(errorName) == errorName \o <<"(", ")">>

decodeRevertError(errorData) ==
    IF ~errorData.defined \/ errorData.text = <<>> \/ errorData.text = Prefix0x
    THEN NoRevertDataText
    ELSE LET decoded == decodeErrorResult(ProtocolErrors, errorData.text)
         IN  IF decoded.threw
             THEN UnknownSelectorText \o RawSelector(errorData.text)
             ELSE IF Len(decoded.args) > 0
             THEN decoded.errorName \o <<"(">> \o JoinArgs(decoded.args) \o <<")">>
             ELSE ErrorWithoutArgs(decoded.errorName)


----------------------------------------------------------------------------
(* SpecDecode: decodeRevertError applied to bounded payloads.              *)

MaxCut == 2

SelectorHeads == {"e", "d", "0", "4"}
SelectorLasts == {"0", "1", "2", "3", "4", "5", "6", "7", "8", "9", "a"}
\* the word 17 (0x11), the code of an arithmetic overflow panic
PanicWord == Rep("0", WordHexLen - 2) \o <<"1", "1">>
PayloadTails == {<<>>, <<"0", "0">>, PanicWord}

DrawnSelectors ==
    {<<h>> \o Rep("0", SelectorHexLen - 2) \o <<l>> :
        h \in SelectorHeads, l \in SelectorLasts}
        \cup {SolidityErrors[i].selector : i \in DOMAIN SolidityErrors}

\* a payload as a node returns it: 0x and lower-case digits, possibly cut short
DrawnPayloads ==
    {Undefined, Defined(<<>>), Defined(Prefix0x)}
        \cup {Defined(SubSeq(Prefix0x \o sel \o tail, 1,
                             Len(Prefix0x) + Len(sel) + Len(tail) - cut)) :
                sel \in DrawnSelectors, tail \in PayloadTails, cut \in 0..MaxCut}

InitDecode ==
    /\ fnIn \in DrawnPayloads
    /\ fnOut = NoResult
    /\ IdleSig /\ IdleFmt /\ IdleFlow

DecodeRevert ==
    /\ fnOut = NoResult
    /\ fnOut' = [kind |-> "text", text |-> decodeRevertError(fnIn)]
    /\ UNCHANGED <<fnIn, sigVars, fmtVars, flowVars>>

NextDecode == DecodeRevert

SpecDecode == InitDecode /\ [][NextDecode]_vars

\* is part somewhere inside s?
Contains(s, part) ==
    \E i \in 0..(Len(s) - Len(part)) : SubSeq(s, i + 1, i + Len(part)) = part

NoPayload(p) == ~p.defined \/ p.text = <<>> \/ p.text = Prefix0x
\* the eight digits after 0x, when the payload has that many
FourBytes(p) == SubSeq(p.text, Len(Prefix0x) + 1, SelectorTextLen)
HasFourBytes(p) == p.defined /\ Len(p.text) >= SelectorTextLen
ProtocolErrorsMatching(p) ==
    {i \in DOMAIN ProtocolErrors :
        HasFourBytes(p) /\ ProtocolErrors[i].selector = FourBytes(p)}
Unrecognized(p) ==
    /\ ~NoPayload(p)
    /\ ProtocolErrorsMatching(p) = {}
    /\ ~(HasFourBytes(p)
         /\ \E i \in DOMAIN SolidityErrors : SolidityErrors[i].selector = FourBytes(p))

\* C12: decodeRevertError returns "Name()" for a payload whose selector is one
\* of the protocol's errors, a text containing the payload's first ten
\* characters for a selector it does not know, "Unknown error (no revert data)"
\* for an absent or empty payload, and it always returns a text.
C12_DecodeRevertError ==
    fnOut # NoResult =>
        /\ fnOut.kind = "text"
        /\ NoPayload(fnIn) => fnOut.text = NoRevertDataText
        /\ \A i \in ProtocolErrorsMatching(fnIn) :
              fnOut.text = ProtocolErrors[i].name \o <<"(", ")">>
        /\ Unrecognized(fnIn) =>
              /\ Contains(fnOut.text, Slice(fnIn.text, 0, SelectorTextLen))
              /\ StartsWith(fnOut.text, UnknownSelectorText)

\* a payload of OrderExpired() with trailing bytes has been decoded
C12_Witness ==
    /\ fnOut # NoResult
    /\ ProtocolErrorsMatching(fnIn) = {2}
    /\ Len(fnIn.text) > SelectorTextLen
    /\ fnOut.text = ProtocolErrors[2].name \o <<"(", ")">>

\* a payload with a full unknown selector has been decoded
C12_UnknownReached ==
    fnOut # NoResult /\ Unrecognized(fnIn) /\ HasFourBytes(fnIn)


----------------------------------------------------------------------------
(* The order after signing: formatOrderOutput (src/lib/order.ts),          *)
(* buildExecuteRequest (src/lib/execute.ts) and buildOrderStruct           *)
(* (src/test/fill.ts).  The numbers of an order are small and its          *)
(* addresses short; a signed order is [signature, orderHash, orderData].   *)

OrderFields ==
    {"salt", "maker", "receiver", "makerAsset", "takerAsset",
     "makingAmount", "takingAmount", "makerTraits"}

\* orderData.makingAmount.toString()
AmountToString(n) == BigIntToString(n)

\* formatOrderOutput: the numbers printed, the addresses as they are
formatOrderOutput(signedOrder) ==
    [orderHash |-> signedOrder.orderHash,
     signature |-> signedOrder.signature,
     order |-> [salt |-> AmountToString(signedOrder.orderData.salt),
                maker |-> signedOrder.orderData.maker,
                receiver |-> signedOrder.orderData.receiver,
                makerAsset |-> signedOrder.orderData.makerAsset,
                takerAsset |-> signedOrder.orderData.takerAsset,
                makingAmount |-> AmountToString(signedOrder.orderData.makingAmount),
                takingAmount |-> AmountToString(signedOrder.orderData.takingAmount),
                makerTraits |-> AmountToString(signedOrder.orderData.makerTraits)]]

\* a plausible slip: the two amounts change places in the request
RequestOrderSwapped(o) ==
    [o EXCEPT !.makingAmount = o.takingAmount,
                  !.takingAmount = o.makingAmount]

\* buildExecuteRequest: the eight fields, each copied under its own name
RequestOrder(o) ==
    [salt |-> o.salt, maker |-> o.maker, receiver |-> o.receiver,
     makerAsset |-> o.makerAsset, takerAsset |-> o.takerAsset,
     makingAmount |-> o.makingAmount, takingAmount |-> o.takingAmount,
     makerTraits |-> o.makerTraits]

\* buildExecuteRequest: parseSignatureToCompact first, which may throw
buildExecuteRequest(orderOutput) ==
    LET compact == parseSignatureToCompact(orderOutput.signature)
    IN  IF compact.kind # "ok"
        THEN [threw |-> TRUE, error |-> compact.error]
        ELSE [threw |-> FALSE,
              request |-> [order |-> RequestOrder(orderOutput.order),
                           signature |-> orderOutput.signature,
                           r |-> compact.r, vs |-> compact.vs]]

\* BigInt(text): 0x and hexadecimal digits, or decimal digits; "" is 0n and
\* anything else a SyntaxError
JsBigInt(s) ==
    IF StartsWith(s, Prefix0x) /\ Len(s) > 2 /\ IsHexText(Slice(s, 2, Len(s)))
    THEN [ok |-> TRUE, value |-> HexTextValue(Slice(s, 2, Len(s)))]
    ELSE IF IsDecText(s)
    THEN [ok |-> TRUE, value |-> DecTextValue(s)]
    ELSE [ok |-> FALSE, value |-> 0]

\* buildOrderStruct: BigInt of each of the eight fields
buildOrderStruct(o) ==
    IF \E f \in OrderFields : ~JsBigInt(o[f]).ok
    THEN [threw |-> TRUE, error |-> "SyntaxError"]
    ELSE [threw |-> FALSE,
          struct |-> [salt |-> JsBigInt(o.salt).value,
                      maker |-> JsBigInt(o.maker).value,
                      receiver |-> JsBigInt(o.receiver).value,
                      makerAsset |-> JsBigInt(o.makerAsset).value,
                      takerAsset |-> JsBigInt(o.takerAsset).value,
                      makingAmount |-> JsBigInt(o.makingAmount).value,
                      takingAmount |-> JsBigInt(o.takingAmount).value,
                      makerTraits |-> JsBigInt(o.makerTraits).value]]

\* bigint.toString(16) of a number that is not negative
RECURSIVE NatToString16(_)
NatToString16(n) ==
    IF n < 16 THEN <<HexLower[n + 1]>>
    ELSE NatToString16(n \div 16) \o <<HexLower[(n % 16) + 1]>>

HashHexLen == 64

\* a plausible slip: the padding is left out
computeOrderHashUnpadded(limitOrder) == Prefix0x \o NatToString16(limitOrder.salt)

\* computeOrderHash: `0x${order.salt.toString(16).padStart(64, "0")}`
computeOrderHash(limitOrder) ==
    Prefix0x \o PadStart(NatToString16(limitOrder.salt), HashHexLen, "0")

\* the signed order of a workflow run: the run's two amounts in an order whose
\* other fields do not matter to the run
SignedOrderOf(makingAmount, takingAmount) ==
    [orderHash |-> computeOrderHash([salt |-> 0]), signature |-> <<>>,
     orderData |-> [salt |-> 0, maker |-> <<>>, receiver |-> <<>>,
                    makerAsset |-> <<>>, takerAsset |-> <<>>,
                    makingAmount |-> makingAmount, takingAmount |-> takingAmount,
                    makerTraits |-> 0]]

(* SpecOrder: a signed order is formatted, then handed to the filler       *)
(* request and to the fillOrder struct.                                    *)

DrawnSignatures ==
    {SigText(Prefix0x, "a", "7", "1", <<"1", "b">>, 0),
     SigText(Prefix0x, "F", "0", "E", <<"1", "c">>, 0),
     SigText(Prefix0x, "a", "7", "1", <<"1", "b">>, -1)}
DrawnAddresses == {<<"0", "x", "4", "d">>, <<"0", "x", "A", "b">>}
DrawnSalts == {0, 7, 43981}
DrawnMakings == {1, 25}
DrawnTakings == {5, 25}
DrawnTraits == {0, 9}

NothingBuilt == [output |-> NoResult, request |-> NoResult, struct |-> NoResult]

InitOrder ==
    /\ \E sig \in DrawnSignatures, salt \in DrawnSalts, maker \in DrawnAddresses,
          receiver \in DrawnAddresses, m \in DrawnMakings, k \in DrawnTakings,
          traits \in DrawnTraits :
            fnIn = [signature |-> sig, orderHash |-> <<>>,
                    orderData |-> [salt |-> salt, maker |-> maker,
                                   receiver |-> receiver,
                                   makerAsset |-> <<"0", "x", "2", "7">>,
                                   takerAsset |-> <<"0", "x", "e", "6">>,
                                   makingAmount |-> m, takingAmount |-> k,
                                   makerTraits |-> traits]]
    /\ fnOut = NothingBuilt
    /\ IdleSig /\ IdleFmt /\ IdleFlow

\* generateSignedOrder: const orderHash = computeOrderHash(order)
ComputeHash ==
    /\ fnIn.orderHash = <<>>
    /\ fnIn' = [fnIn EXCEPT !.orderHash = computeOrderHash(fnIn.orderData)]
    /\ UNCHANGED <<fnOut, sigVars, fmtVars, flowVars>>

\* formatOrderOutput of what generateSignedOrder returned
FormatOrder ==
    /\ fnIn.orderHash # <<>>
    /\ fnOut.output = NoResult
    /\ fnOut' = [fnOut EXCEPT !.output = formatOrderOutput(fnIn)]
    /\ UNCHANGED <<fnIn, sigVars, fmtVars, flowVars>>

\* executeOrder: const request = buildExecuteRequest(orderOutput)
BuildRequest ==
    /\ fnOut.output # NoResult /\ fnOut.request = NoResult
    /\ fnOut' = [fnOut EXCEPT !.request = buildExecuteRequest(fnOut.output)]
    /\ UNCHANGED <<fnIn, sigVars, fmtVars, flowVars>>

\* buildFillOrderData: const orderStruct = buildOrderStruct(order.order)
BuildStruct ==
    /\ fnOut.output # NoResult /\ fnOut.struct = NoResult
    /\ fnOut' = [fnOut EXCEPT !.struct = buildOrderStruct(fnOut.output.order)]
    /\ UNCHANGED <<fnIn, sigVars, fmtVars, flowVars>>

NextOrder == ComputeHash \/ FormatOrder \/ BuildRequest \/ BuildStruct

SpecOrder == InitOrder /\ [][NextOrder]_vars

\* the number a field of the signed order stands for
SignedValue(f) ==
    IF f \in {"maker", "receiver", "makerAsset", "takerAsset"}
    THEN HexTextValue(SubSeq(fnIn.orderData[f], 3, Len(fnIn.orderData[f])))
    ELSE fnIn.orderData[f]

\* C18: nothing changes an order after signing: the filler request carries the
\* eight fields and the signature of the formatted order as they are and adds
\* only r and vs, computed from that signature; the fillOrder struct holds the
\* same eight values.
C18_OrderUnchangedAfterSigning ==
    /\ fnOut.output # NoResult =>
          /\ fnOut.output.signature = fnIn.signature
          /\ DOMAIN fnOut.output.order = OrderFields
    /\ (fnOut.request # NoResult /\ ~fnOut.request.threw) =>
          LET request == fnOut.request.request
          IN  /\ DOMAIN request = {"order", "signature", "r", "vs"}
              /\ DOMAIN request.order = OrderFields
              /\ \A f \in OrderFields : request.order[f] = fnOut.output.order[f]
              /\ request.signature = fnIn.signature
              /\ request.r = parseSignatureToCompact(fnIn.signature).r
              /\ request.vs = parseSignatureToCompact(fnIn.signature).vs
    /\ fnOut.struct # NoResult =>
          /\ ~fnOut.struct.threw
          /\ DOMAIN fnOut.struct.struct = OrderFields
          /\ \A f \in OrderFields : fnOut.struct.struct[f] = SignedValue(f)

\* an order with different amounts went into both the request and the struct
C18_Witness ==
    /\ fnIn.orderData.makingAmount # fnIn.orderData.takingAmount
    /\ fnOut.request # NoResult /\ ~fnOut.request.threw
    /\ fnOut.struct # NoResult /\ ~fnOut.struct.threw
    /\ fnOut.request.request.order.takingAmount = <<"2", "5">>
    /\ fnOut.struct.struct.takingAmount = 25

----------------------------------------------------------------------------
(* The workflows.  One run is one invocation of a script, or one call of   *)
(* the library's generateOrder.  Amounts are small numbers; the chain's    *)
(* uint256 range ends at maxUint256.                                        *)
(*                                                                         *)
(*   generate             src/src/generate-order.ts (and its earlier copy) *)
(*   generateSubmitPairs  generate + submit to the filler, trading pairs   *)
(*   generateSubmit       generate + submit to the filler, USDC -> BRLA    *)
(*   generateOrder        the library function, called with any options    *)
(*   fillTest             a test order is generated, then filled           *)
(*   fillShared           generateOrder(), taker approval, then simulation *)
(*   fill                 src/test/fill.ts: an order loaded from a file    *)

MaxInputAmount == 2
MaxApiAmount == 2
MaxReprompts == 1
TestMakingAmount == 1

\* the largest uint256 of the model: above every amount a run can ask for
maxUint256 == RateNumerator * (MaxInputAmount + MaxApiAmount) + 1

ProtocolContract == "LIMIT_ORDER_PROTOCOL_ADDRESS"

MakerScripts == {"generate", "generateSubmitPairs", "generateSubmit"}
Workflows == MakerScripts \cup {"generateOrder", "fillTest", "fillShared", "fill"}

\* the scripts whose getQuote is the hardcoded rate; the others ask the filler API
FixedRateQuote(w) == w \in {"generate", "fillTest"}
\* the scripts that hand the signed order to the filler
SubmitsToFiller(w) == w \in {"generateSubmitPairs", "generateSubmit"}
\* the runs that go through the library's generateOrder
ViaLibrary(w) == w \in {"generateOrder", "fillShared"}

\* TOKENS of config.ts: the addresses as they are written there
UsdcAddress ==
    <<"0", "x", "3", "c", "4", "9", "9", "c", "5", "4", "2", "c",
      "E", "F", "5", "E", "3", "8", "1", "1", "e", "1", "1", "9", "2",
      "c", "e", "7", "0", "d", "8", "c", "C", "0", "3", "d", "5", "c",
      "3", "3", "5", "9">>
UsdtAddress ==
    <<"0", "x", "c", "2", "1", "3", "2", "D", "0", "5", "D", "3",
      "1", "c", "9", "1", "4", "a", "8", "7", "C", "6", "6", "1", "1",
      "C", "1", "0", "7", "4", "8", "A", "E", "b", "0", "4", "B", "5",
      "8", "e", "8", "F">>
BrlaAddress ==
    <<"0", "x", "E", "6", "A", "5", "3", "7", "a", "4", "0", "7",
      "4", "8", "8", "8", "0", "7", "F", "0", "b", "b", "e", "b", "0",
      "0", "3", "8", "B", "7", "9", "0", "0", "4", "f", "1", "9", "D",
      "D", "D", "F", "b">>

TOKENS ==
    <<[symbol |-> "USDC", address |-> UsdcAddress],
      [symbol |-> "USDT", address |-> UsdtAddress],
      [symbol |-> "BRLA", address |-> BrlaAddress]>>

UpperLetters ==
    <<"A", "B", "C", "D", "E", "F", "G", "H", "I", "J", "K", "L", "M",
      "N", "O", "P", "Q", "R", "S", "T", "U", "V", "W", "X", "Y", "Z">>
LowerLetters ==
    <<"a", "b", "c", "d", "e", "f", "g", "h", "i", "j", "k", "l", "m",
      "n", "o", "p", "q", "r", "s", "t", "u", "v", "w", "x", "y", "z">>

\* String.prototype.toLowerCase
ToLowerCase(s) ==
    [i \in 1..Len(s) |->
        IF \E k \in DOMAIN UpperLetters : UpperLetters[k] = s[i]
        THEN LowerLetters[CHOOSE k \in DOMAIN UpperLetters : UpperLetters[k] = s[i]]
        ELSE s[i]]

\* String.prototype.trim, for blanks
RECURSIVE TrimStart(_)
TrimStart(s) == IF s # <<>> /\ s[1] = " " THEN TrimStart(Tail(s)) ELSE s
RECURSIVE TrimEnd(_)
TrimEnd(s) ==
    IF s # <<>> /\ s[Len(s)] = " " THEN TrimEnd(SubSeq(s, 1, Len(s) - 1)) ELSE s
Trim(s) == TrimEnd(TrimStart(s))

\* a plausible slip: the table's address is compared as it is written
TokenAddressAsWritten(token) == token.address

\* token.address.toLowerCase()
TokenAddressLower(token) == ToLowerCase(token.address)

\* getTokenByAddress: the first token whose lowercased address is the
\* lowercased argument, or undefined
getTokenByAddress(address) ==
    LET lowerAddress == ToLowerCase(address)
        hits == {k \in DOMAIN TOKENS : TokenAddressLower(TOKENS[k]) = lowerAddress}
    IN  IF hits = {} THEN [found |-> FALSE, symbol |-> ""]
        ELSE [found |-> TRUE,
              symbol |-> TOKENS[CHOOSE k \in hits : \A h \in hits : k <= h].symbol]

AddressHexLen == 40

\* `0x${BigInt(order.order.takerAsset).toString(16).padStart(40, "0")}` for a
\* takerAsset written as 0x and hexadecimal digits
takerAssetAddress(takerAsset) ==
    Prefix0x \o PadStart(BigIntToString16(BigIntOfHex(Slice(takerAsset, 2, Len(takerAsset)))),
                         AddressHexLen, "0")

NoOrder == [present |-> FALSE, sigOk |-> FALSE, takerAsset |-> <<>>]

Ev(op, who, a, b, x) == [op |-> op, who |-> who, a |-> a, b |-> b, x |-> x]

Required == IF phase = "maker" THEN making ELSE taking

\* process.exit(code), or main returning (code 0)
Exit(code, e) == pc' = "done" /\ status' = code /\ err' = e

\* an error thrown out of the current step: generateOrder called as a library
\* throws to its caller; in a script main().catch logs it and exits with 1
Throw(e) ==
    /\ pc' = "done"
    /\ status' = IF wf = "generateOrder" THEN "threw" ELSE "exit1"
    /\ err' = e

\* what executeFill returns: { success, txHash?, error? }
FillResult(success, hash, e) ==
    [fn |-> "executeFill", success |-> success, txHash |-> hash,
     hasError |-> e # "", error |-> e]

\* executeFill returns r to main, which exits with 0 on success and 1 otherwise
ReturnToMain(r) ==
    /\ result' = r
    /\ Exit(IF r.success THEN "exit0" ELSE "exit1", r.error)

\* the values the chain starts with for an allowance the run reads
InitAllowances ==
    (0..MaxInputAmount) \cup {RateNumerator * k : k \in 1..MaxInputAmount}
        \cup {maxUint256}

Init ==
    /\ IdleSig /\ IdleFmt /\ IdleFn
    /\ wf \in Workflows
    /\ opts \in [execute : IF wf \in {"fillTest", "fill"} THEN BOOLEAN ELSE {FALSE},
                 skipApproval : IF wf = "generateOrder" THEN BOOLEAN ELSE {FALSE},
                 tty : IF wf = "generateSubmit" THEN BOOLEAN ELSE {TRUE}]
    /\ env \in [maker : IF wf \in {"generateOrder", "fill"} THEN {TRUE} ELSE BOOLEAN,
                taker : IF wf \in {"fillTest", "fillShared", "fill"} THEN BOOLEAN ELSE {TRUE},
                rpcUrl : IF wf = "generateOrder" THEN {TRUE} ELSE BOOLEAN,
                fillerUrl : IF wf = "generateOrder" THEN {TRUE} ELSE BOOLEAN]
    /\ pc = "start"
    /\ phase = IF wf = "fill" THEN "taker" ELSE "maker"
    /\ raw = 0 /\ making = 0 /\ taking = 0 /\ cur = 0 /\ txHash = FALSE
    /\ order = NoOrder
    /\ allowance \in [maker : IF wf = "fill" THEN {0} ELSE InitAllowances,
                      taker : IF wf \in {"fillTest", "fillShared", "fill"}
                              THEN InitAllowances ELSE {0}]
    /\ log = <<>>
    /\ result = NoReturn
    /\ status = "running"
    /\ err = ""

----------------------------------------------------------------------------
(* Start of a run: the private keys, and for fill.ts the order file.       *)

\* the takerAsset an order file may hold: BRLA as config.ts writes it, in
\* lowercase and in uppercase digits, USDT without its leading digits (not a
\* token), an address one digit away from BRLA, and a short number
LoadedTakerAssets ==
    {BrlaAddress, ToLowerCase(BrlaAddress),
     Prefix0x \o [i \in 1..AddressHexLen |-> HexUpper[HexVal(BrlaAddress[i + 2]) + 1]],
     Prefix0x \o SubSeq(UsdtAddress, 5, Len(UsdtAddress)),
     SubSeq(BrlaAddress, 1, Len(BrlaAddress) - 1) \o <<"c">>,
     Prefix0x \o <<"0", "0", "1">>}

\* config.ts, evaluated when the script imports it: POLYGON_RPC_URL and
\* FILLER_API_URL are read and a missing one throws before main is entered
ConfigLoads == env.rpcUrl /\ env.fillerUrl
ConfigError ==
    IF env.rpcUrl THEN "FILLER_API_URL environment variable is required"
    ELSE "POLYGON_RPC_URL environment variable is required"

\* the import of config.ts, then getMakerPrivateKey / getTakerPrivateKey at the
\* top of main; loadOrder
Start ==
    /\ pc = "start"
    /\ CASE ~ConfigLoads ->
              /\ Exit("exit1", ConfigError)
              /\ UNCHANGED <<raw, taking, order>>
         [] ConfigLoads /\ wf \in MakerScripts ->
              \* getRequiredEnv("MAKER_PRIVATE_KEY"): process.exit(1) when absent
              /\ IF env.maker THEN pc' = "amount" /\ UNCHANGED <<status, err>>
                 ELSE Exit("exit1", "MAKER_PRIVATE_KEY is required")
              /\ UNCHANGED <<raw, taking, order>>
         [] ConfigLoads /\ wf = "generateOrder" ->
              \* the caller passes makerPrivateKey and amountStr
              /\ pc' = "amount"
              /\ UNCHANGED <<raw, taking, order, status, err>>
         [] ConfigLoads /\ wf = "fillTest" ->
              \* generateTestOrder: the maker key, then TEST_MAKING_AMOUNT is quoted
              /\ IF env.maker
                 THEN pc' = "quote" /\ raw' = TestMakingAmount /\ UNCHANGED <<status, err>>
                 ELSE Exit("exit1", "MAKER_PRIVATE_KEY is required") /\ UNCHANGED raw
              /\ UNCHANGED <<taking, order>>
         [] ConfigLoads /\ wf = "fillShared" ->
              \* both keys are read before generateOrder is called
              /\ IF env.maker /\ env.taker
                 THEN pc' = "amount" /\ UNCHANGED <<status, err>>
                 ELSE Exit("exit1", IF env.maker THEN "TAKER_PRIVATE_KEY is required"
                                    ELSE "MAKER_PRIVATE_KEY is required")
              /\ UNCHANGED <<raw, taking, order>>
         [] ConfigLoads /\ wf = "fill" ->
              \* loadOrder: whatever the file holds
              /\ \E t \in 1..MaxInputAmount, sOk \in BOOLEAN, asset \in LoadedTakerAssets :
                    /\ order' = [present |-> TRUE, sigOk |-> sOk, takerAsset |-> asset]
                    /\ taking' = t
              /\ pc' = "mode"
              /\ UNCHANGED <<raw, status, err>>
    /\ UNCHANGED <<wf, opts, env, phase, making, allowance, cur, txHash, log>>
    /\ UNCHANGED <<sigVars, fmtVars, fnVars, result>>

\* readLines of the USDC -> BRLA submitting script: on a terminal the
\* confirmation question follows the amount question at once; piped input is
\* read whole and nothing is asked
AskedUpFront == wf = "generateSubmit"
QuestionsUpFront ==
    IF AskedUpFront /\ opts.tty THEN <<Ev("confirmAsked", "maker", 0, 0, "")>> ELSE <<>>

\* the amount typed (or passed) and its check: parseUnits(amountStr) <= 0n
EnterAmount ==
    /\ pc = "amount"
    /\ \E a \in (IF wf = "fillShared" THEN {TestMakingAmount} ELSE (-1)..MaxInputAmount) :
          IF a > 0
          THEN /\ raw' = a /\ pc' = "quote"
               /\ log' = log \o QuestionsUpFront
               /\ UNCHANGED <<status, err>>
          ELSE CASE wf = "generate" ->
                      \* promptForAmount asks again
                      /\ Len(SelectSeq(log, LAMBDA e : e.op = "amountRejected")) < MaxReprompts
                      /\ log' = Append(log, Ev("amountRejected", "maker", a, 0, ""))
                      /\ UNCHANGED <<raw, pc, status, err>>
                 [] wf \in {"generateSubmitPairs", "generateSubmit"} ->
                      /\ Exit("exit1", "Amount must be greater than zero")
                      /\ log' = log \o QuestionsUpFront
                                    \o <<Ev("amountRejected", "maker", a, 0, "")>>
                      /\ UNCHANGED raw
                 [] OTHER ->
                      /\ Throw("Amount must be greater than zero")
                      /\ log' = Append(log, Ev("amountRejected", "maker", a, 0, ""))
                      /\ UNCHANGED raw
    /\ UNCHANGED <<wf, opts, env, phase, making, taking, order, allowance, cur, txHash>>
    /\ UNCHANGED <<sigVars, fmtVars, fnVars, result>>

\* a plausible slip: the order is made for the amount typed, not the one quoted
AmountsOfTyped(inputAmount, outputAmount, makingAmountRaw) ==
    [making |-> makingAmountRaw, taking |-> outputAmount]

\* const makingAmount = quote.inputAmount; const takingAmount = quote.outputAmount
AmountsOfQuote(inputAmount, outputAmount, makingAmountRaw) ==
    [making |-> inputAmount, taking |-> outputAmount]

\* getQuote: the hardcoded rate, or whatever the filler API answers
GetQuote ==
    /\ pc = "quote"
    /\ \/ /\ FixedRateQuote(wf)
          /\ LET i == getQuote(raw).inputAmount
                 o == TakerUnits(getQuote(raw).outputAmount)
             IN  /\ making' = AmountsOfQuote(i, o, raw).making
                 /\ taking' = AmountsOfQuote(i, o, raw).taking
                 /\ log' = Append(log, Ev("quote", "maker", i, o, "fixed"))
          /\ pc' = "balance"
          /\ UNCHANGED <<status, err>>
       \/ /\ ~FixedRateQuote(wf)
          /\ \E i \in 0..MaxApiAmount, o \in 0..MaxApiAmount :
                /\ making' = AmountsOfQuote(i, o, raw).making
                /\ taking' = AmountsOfQuote(i, o, raw).taking
                /\ log' = Append(log, Ev("quote", "maker", i, o, "api"))
          /\ pc' = "balance"
          /\ UNCHANGED <<status, err>>
       \/ /\ ~FixedRateQuote(wf)
          /\ Throw("Quote failed")
          /\ UNCHANGED <<making, taking, log>>
    /\ UNCHANGED <<wf, opts, env, phase, raw, order, allowance, cur, txHash>>
    /\ UNCHANGED <<sigVars, fmtVars, fnVars, result>>

----------------------------------------------------------------------------
(* Balance and allowance gating: src/lib/blockchain.ts.                    *)

\* a plausible slip: the comparison is dropped and any balance passes
SufficientAnyBalance(balance, requiredAmount) == balance >= 0

\* validateSufficientBalance: sufficient: balance >= requiredAmount
Sufficient(balance, requiredAmount) == balance >= requiredAmount

\* a plausible slip: an allowance equal to the amount is approved again
AllowanceCoversStrict(currentAllowance, requiredAmount) ==
    currentAllowance > requiredAmount

\* ensureTokenApproval: if (currentAllowance >= requiredAmount) return
AllowanceCovers(currentAllowance, requiredAmount) ==
    currentAllowance >= requiredAmount

\* a plausible slip: the allowance is first reset
ApprovalAmountReset(requiredAmount) == 0

\* what ensureTokenApproval approves: approveToken's default, maxUint256
ApprovalAmount(requiredAmount) == maxUint256

\* the balances the chain may answer: around the amount asked for
BalanceAnswers(requiredAmount) ==
    {b \in {0, requiredAmount - 1, requiredAmount, requiredAmount + 1} : b >= 0}

\* where a run goes once its balance is found sufficient
AfterBalance ==
    CASE phase = "taker" -> "allowance"
      [] wf \in MakerScripts -> "confirm"
      [] ViaLibrary(wf) -> IF opts.skipApproval THEN "sign" ELSE "allowance"
      [] OTHER -> "allowance"

\* validateSufficientBalance and the caller's if (!sufficient)
CheckBalance ==
    /\ pc = "balance"
    /\ \/ \E balance \in BalanceAnswers(Required) :
            /\ log' = Append(log, Ev("balanceRead", phase, balance, Required, ""))
            /\ IF Sufficient(balance, Required)
               THEN pc' = AfterBalance /\ UNCHANGED <<status, err>>
               ELSE IF ViaLibrary(wf) /\ phase = "maker"
                    THEN Throw("Insufficient balance")
                    ELSE Exit("exit1", "Insufficient balance")
            \* in executeFill the failure is returned to main first
            /\ result' = IF phase = "taker" /\ ~Sufficient(balance, Required)
                         THEN FillResult(FALSE, FALSE, "Insufficient balance")
                         ELSE result
       \/ /\ Throw("RPC error")
          /\ UNCHANGED <<log, result>>
    /\ UNCHANGED <<wf, opts, env, phase, raw, making, taking, order, allowance, cur, txHash>>
    /\ UNCHANGED <<sigVars, fmtVars, fnVars>>

\* what may be typed at the confirmation question, or stand on the line of
\* the piped input (an absent line is read as "")
ConfirmAnswers ==
    {<<"y">>, <<" ", "Y", "E", "s", " ">>, <<>>, <<" ">>, <<"n">>, <<"y", "e">>,
     <<"y", "e", "s", "s">>, <<"y", " ", "e", "s">>}

\* a plausible slip: the answer is compared as it was typed
IsYesAsTyped(answer) == answer = <<"y">> \/ answer = <<"y", "e", "s">>

\* answer.toLowerCase() === "y" || answer.toLowerCase() === "yes"
IsYes(answer) ==
    ToLowerCase(answer) = <<"y">> \/ ToLowerCase(answer) = <<"y", "e", "s">>

\* promptForConfirmation of the trimmed answer: anything but y or yes cancels
\* with exit code 0; the event records the line as it was typed
Confirm ==
    /\ pc = "confirm"
    /\ \E typed \in ConfirmAnswers :
          LET yes == IsYes(Trim(typed))
          IN  /\ log' = log \o (IF AskedUpFront THEN <<>>
                                 ELSE <<Ev("confirmAsked", "maker", 0, 0, "")>>)
                            \o <<Ev("confirm", "maker", typed, 0,
                                    IF yes THEN "yes" ELSE "no")>>
              /\ IF yes THEN pc' = "allowance" /\ UNCHANGED <<status, err>>
                 ELSE Exit("exit0", "Order cancelled")
    /\ UNCHANGED <<wf, opts, env, phase, raw, making, taking, order, allowance, cur, txHash>>
    /\ UNCHANGED <<sigVars, fmtVars, fnVars, result>>

\* where the caller of ensureTokenApproval goes on
AfterApproval ==
    CASE phase = "maker" -> "sign"
      [] wf = "fillShared" -> "simulate"
      [] OTHER -> "fillData"

\* ensureTokenApproval up to its first return: getTokenAllowance and the test
ReadAllowance ==
    /\ pc = "allowance"
    /\ \/ /\ cur' = allowance[phase]
          /\ txHash' = FALSE
          /\ IF AllowanceCovers(allowance[phase], Required)
             THEN /\ pc' = AfterApproval
                  /\ log' = log \o
                        <<Ev("allowanceRead", phase, allowance[phase], Required, ""),
                          Ev("ensureReturned", phase, 0, 0, "noTxHash")>>
             ELSE /\ pc' = "approve"
                  /\ log' = Append(log,
                        Ev("allowanceRead", phase, allowance[phase], Required, ""))
          /\ UNCHANGED <<status, err>>
       \/ /\ Throw("RPC error")
          /\ UNCHANGED <<cur, txHash, log>>
    /\ UNCHANGED <<wf, opts, env, phase, raw, making, taking, order, allowance>>
    /\ UNCHANGED <<sigVars, fmtVars, fnVars, result>>

\* a plausible slip: the hash is returned without waiting for the receipt
ApproveThenNoWait(after) == after

\* approveToken: after writeContract comes waitForTransactionReceipt
ApproveThen(after) == "receipt"

\* approveToken: walletClient.writeContract(approve(spender, amount))
SendApprove ==
    /\ pc = "approve"
    /\ \/ /\ log' = Append(log, Ev("approveSent", phase, ApprovalAmount(Required),
                                   cur, ProtocolContract))
          /\ pc' = ApproveThen(AfterApproval)
          /\ txHash' = TRUE
          /\ UNCHANGED <<status, err>>
       \/ /\ Throw("RPC error")
          /\ UNCHANGED <<txHash, log>>
    /\ UNCHANGED <<wf, opts, env, phase, raw, making, taking, order, allowance, cur>>
    /\ UNCHANGED <<sigVars, fmtVars, fnVars, result>>

\* approveToken: await publicClient.waitForTransactionReceipt({ hash }); the
\* receipt's status is not looked at, and ensureTokenApproval returns the hash
AwaitApprovalReceipt ==
    /\ pc = "receipt"
    /\ \/ \E mined \in {"success", "reverted"} :
            /\ allowance' = IF mined = "success"
                            THEN [allowance EXCEPT ![phase] = ApprovalAmount(Required)]
                            ELSE allowance
            /\ log' = log \o <<Ev("approvalReceipt", phase, 0, 0, mined),
                               Ev("ensureReturned", phase, 0, 0, "txHash")>>
            /\ pc' = AfterApproval
            /\ UNCHANGED <<status, err>>
       \/ /\ Throw("RPC error")
          /\ UNCHANGED <<allowance, log>>
    /\ UNCHANGED <<wf, opts, env, phase, raw, making, taking, order, cur, txHash>>
    /\ UNCHANGED <<sigVars, fmtVars, fnVars, result>>

----------------------------------------------------------------------------
(* Signing, and what the maker scripts do with the signed order.           *)

\* where a run goes once the order is signed
AfterSign ==
    CASE SubmitsToFiller(wf) -> "submit"
      [] wf = "generate" -> "print"   \* the submitting scripts print after "submit"
      [] wf = "fillTest" -> "mode"
      [] wf = "fillShared" -> "allowance"
      [] OTHER -> "done"

\* generateSignedOrder + formatOrderOutput; the event records the allowance
\* the chain holds at that moment and the order that is put out
SignOrder ==
    /\ pc = "sign"
    /\ \/ /\ log' = Append(log, Ev("sign", "maker", making, allowance.maker,
                                   formatOrderOutput(SignedOrderOf(making, taking))))
          /\ order' = [present |-> TRUE, sigOk |-> TRUE, takerAsset |-> BrlaAddress]
          /\ pc' = AfterSign
          /\ phase' = IF wf \in {"fillTest", "fillShared"} THEN "taker" ELSE phase
          /\ status' = IF wf = "generateOrder" THEN "returned" ELSE status
          /\ UNCHANGED err
       \/ /\ Throw("signTypedData failed")
          /\ UNCHANGED <<log, order, phase>>
    /\ UNCHANGED <<wf, opts, env, raw, making, taking, allowance, cur, txHash>>
    /\ UNCHANGED <<sigVars, fmtVars, fnVars, result>>

\* executeOrder: POST to the filler; an unsuccessful answer is printed and
\* main goes on to print the order
SubmitToFiller ==
    /\ pc = "submit"
    /\ \/ \E answer \in {"accepted", "rejected", "httpError"} :
            /\ log' = Append(log, Ev("submit", "maker", making, taking, answer))
            /\ pc' = "print"
            /\ err' = IF answer = "accepted" THEN "" ELSE "Order execution failed"
            /\ UNCHANGED status
       \/ /\ Throw("fetch failed")
          /\ UNCHANGED log
    /\ UNCHANGED <<wf, opts, env, phase, raw, making, taking, order, allowance, cur, txHash>>
    /\ UNCHANGED <<sigVars, fmtVars, fnVars, result>>

\* console.log(JSON.stringify(output, null, 2)) and main returns
PrintOrder ==
    /\ pc = "print"
    /\ log' = Append(log, Ev("print", "maker", making, taking, ""))
    /\ Exit("exit0", err)
    /\ UNCHANGED <<wf, opts, env, phase, raw, making, taking, order, allowance, cur, txHash>>
    /\ UNCHANGED <<sigVars, fmtVars, fnVars, result>>

----------------------------------------------------------------------------
(* The taker side: src/test/fill.ts and the fill test that generates its   *)
(* own order.                                                              *)

\* does this branch of main call getTakerPrivateKey?  fill.ts does in both
\* branches; the self-generating test simulates with the constant TAKER_ADDRESS
NeedsTakerKey(w, execute) == w = "fill" \/ execute

\* main: if (executeMode) ... else ...
ChooseMode ==
    /\ pc = "mode"
    /\ IF NeedsTakerKey(wf, opts.execute) /\ ~env.taker
       THEN Throw("TAKER_PRIVATE_KEY environment variable is required")
       ELSE /\ pc' = CASE ~opts.execute -> "simulate"
                       [] wf = "fill" -> "lookup"
                       [] OTHER -> "balance"
            /\ UNCHANGED <<status, err>>
    /\ UNCHANGED <<wf, opts, env, phase, raw, making, taking, order, allowance, cur,
                   txHash, log>>
    /\ UNCHANGED <<sigVars, fmtVars, fnVars, result>>

\* executeFill of fill.ts: getTokenByAddress(takerAssetAddress)
LookupTakerToken ==
    /\ pc = "lookup"
    /\ IF getTokenByAddress(takerAssetAddress(order.takerAsset)).found
       THEN pc' = "balance" /\ UNCHANGED <<status, err, result, log>>
       ELSE \* { success: false, error: `Unknown taker asset: ${takerAssetAddress}` }
            /\ ReturnToMain(FillResult(FALSE, FALSE, "Unknown taker asset"))
            /\ log' = Append(log, Ev("unknownTakerAsset", "taker", 0, 0,
                                      takerAssetAddress(order.takerAsset)))
    /\ UNCHANGED <<wf, opts, env, phase, raw, making, taking, order, allowance, cur,
                   txHash>>
    /\ UNCHANGED <<sigVars, fmtVars, fnVars>>

\* buildFillOrderData, outside the try: parseSignatureToCompact may throw
BuildFillData ==
    /\ pc = "fillData"
    /\ IF order.sigOk
       THEN pc' = "estimate" /\ UNCHANGED <<status, err>>
       ELSE Throw("Invalid signature length")
    /\ UNCHANGED <<wf, opts, env, phase, raw, making, taking, order, allowance, cur,
                   txHash, log>>
    /\ UNCHANGED <<sigVars, fmtVars, fnVars, result>>

MaxGasEstimate == 21

\* a plausible slip: the tenth is left out
GasLimitBare(gasEstimate) == gasEstimate

\* gas: gasEstimate + gasEstimate / 10n
GasLimit(gasEstimate) == gasEstimate + TruncDiv(gasEstimate, 10)

\* publicClient.estimateGas; an error is caught and returned as a failed fill
EstimateGas ==
    /\ pc = "estimate"
    /\ \/ \E gasEstimate \in 0..MaxGasEstimate :
            /\ log' = Append(log, Ev("gasEstimated", "taker", gasEstimate, 0, ""))
            /\ pc' = "send"
            /\ UNCHANGED <<status, err, result>>
       \/ /\ ReturnToMain(FillResult(FALSE, FALSE, "estimateGas failed"))
          /\ UNCHANGED log
    /\ UNCHANGED <<wf, opts, env, phase, raw, making, taking, order, allowance, cur, txHash>>
    /\ UNCHANGED <<sigVars, fmtVars, fnVars>>

\* walletClient.sendTransaction with the inflated gas limit; the event records
\* the gas limit and the taker's allowance at that moment
SendFill ==
    /\ pc = "send"
    /\ \/ /\ log' = Append(log, Ev("fillSent", "taker", taking, allowance.taker,
                                   GasLimit(log[Len(log)].a)))
          /\ pc' = "fillReceipt"
          /\ UNCHANGED <<status, err, result>>
       \/ /\ ReturnToMain(FillResult(FALSE, FALSE, "sendTransaction failed"))
          /\ UNCHANGED log
    /\ UNCHANGED <<wf, opts, env, phase, raw, making, taking, order, allowance, cur, txHash>>
    /\ UNCHANGED <<sigVars, fmtVars, fnVars>>

\* a plausible slip: the receipt's status is not looked at
ReceiptResultAnyStatus(receiptStatus) == FillResult(TRUE, TRUE, "")

\* if (receipt.status === "success") ... else ...
ReceiptResult(receiptStatus) ==
    IF receiptStatus = "success" THEN FillResult(TRUE, TRUE, "")
    ELSE FillResult(FALSE, TRUE, "Transaction reverted")

\* waitForTransactionReceipt and receipt.status; a failed wait is caught
AwaitFillReceipt ==
    /\ pc = "fillReceipt"
    /\ \/ \E mined \in {"success", "reverted"} :
            /\ log' = Append(log, Ev("fillReceipt", "taker", 0, 0, mined))
            /\ ReturnToMain(ReceiptResult(mined))
       \/ /\ ReturnToMain(FillResult(FALSE, FALSE, "waitForTransactionReceipt failed"))
          /\ UNCHANGED log
    /\ UNCHANGED <<wf, opts, env, phase, raw, making, taking, order, allowance, cur, txHash>>
    /\ UNCHANGED <<sigVars, fmtVars, fnVars>>

\* what publicClient.call and the eth_call behind getRevertData may answer
ExecutionRevertedText ==
    <<"e", "x", "e", "c", "u", "t", "i", "o", "n", " ",
      "r", "e", "v", "e", "r", "t", "e", "d">>
\* viem's errors carry a message
CallMessages == {ExecutionRevertedText, <<"R", "P", "C", " ", "d", "o", "w", "n">>}
RefetchedPayloads ==
    {Undefined, Defined(<<>>), Defined(Prefix0x),
     Defined(Prefix0x \o ProtocolErrors[1].selector),
     Defined(Prefix0x \o <<"d", "e", "a", "d", "b", "e", "e", "f">>)}
CallPassed == [callFails |-> FALSE, message |-> <<>>,
               refetch |-> [kind |-> "none", data |-> Undefined]]
RpcAnswers ==
    {CallPassed}
        \cup [callFails : {TRUE}, message : CallMessages,
              refetch : {[kind |-> "threw", data |-> Undefined]}
                        \cup [kind : {"data"}, data : RefetchedPayloads]]

\* getRevertData: result.error?.data, and undefined when fetch or json() throws
getRevertData(refetch) == IF refetch.kind = "data" THEN refetch.data ELSE Undefined

\* a plausible slip: the payload is decoded whether or not there is one
TruthyAlways(revertData) == TRUE

\* if (revertData): a non-empty string
Truthy(revertData) == revertData.defined /\ revertData.text # <<>>

\* simulateFill after buildFillOrderData: the call, and what it returns
simulateFill(rpc) ==
    IF ~rpc.callFails
    THEN [success |-> TRUE, error |-> Undefined]
    ELSE LET revertData == getRevertData(rpc.refetch)
         IN  IF Truthy(revertData)
             THEN [success |-> FALSE, error |-> Defined(decodeRevertError(revertData))]
             ELSE [success |-> FALSE, error |-> Defined(rpc.message)]

\* the events of one simulateFill: the call, the second eth_call after a failure
\* (same from, to and data), and the result
SimulationEvents(rpc) ==
    <<Ev("simCall", "taker", taking, 0, ProtocolContract)>>
        \o (IF rpc.callFails
            THEN <<Ev("ethCall", "taker", taking, 0, ProtocolContract)>>
            ELSE <<>>)
        \o <<Ev("simulated", "taker", rpc, simulateFill(rpc), "")>>

\* simulateFill and the branch of main that prints its result
SimulateFill ==
    /\ pc = "simulate"
    /\ IF order.sigOk
       THEN \E rpc \in RpcAnswers :
              /\ log' = log \o SimulationEvents(rpc)
              /\ Exit(IF simulateFill(rpc).success THEN "exit0" ELSE "exit1",
                      IF simulateFill(rpc).success THEN "" ELSE "Simulation failed")
       ELSE Throw("Invalid signature length") /\ UNCHANGED log
    /\ UNCHANGED <<wf, opts, env, phase, raw, making, taking, order, allowance, cur, txHash>>
    /\ UNCHANGED <<sigVars, fmtVars, fnVars, result>>

----------------------------------------------------------------------------

Next ==
    \/ Start \/ EnterAmount \/ GetQuote
    \/ CheckBalance \/ Confirm
    \/ ReadAllowance \/ SendApprove \/ AwaitApprovalReceipt
    \/ SignOrder \/ SubmitToFiller \/ PrintOrder
    \/ ChooseMode \/ LookupTakerToken \/ BuildFillData
    \/ EstimateGas \/ SendFill \/ AwaitFillReceipt \/ SimulateFill

Spec == Init /\ [][Next]_vars

----------------------------------------------------------------------------
(* Properties of the workflows, read off the log of a run.                 *)

Parties == {"maker", "taker"}
Events(op) == {i \in DOMAIN log : log[i].op = op}
\* the steps that spend the allowance: the maker signing, the taker filling
Spends == Events("sign") \cup Events("fillSent")
\* everything that may not follow a failed balance check
Proceeds ==
    Events("allowanceRead") \cup Events("approveSent") \cup Events("sign")
        \cup Events("submit") \cup Events("fillSent")

\* C6: a balance read strictly below the required amount ends the run with an
\* insufficient-balance failure and nothing is read, approved, signed,
\* submitted or filled after it; a balance equal to the amount passes.
C6_InsufficientBalanceHalts ==
    \A i \in Events("balanceRead") :
        IF log[i].a < log[i].b
        THEN /\ pc = "done"
             /\ status \in {"exit1", "threw"}
             /\ err = "Insufficient balance"
             /\ \A j \in Proceeds : j < i
             /\ i = Len(log)
        ELSE ~(i = Len(log) /\ err = "Insufficient balance")

\* a run refused for a balance one below the amount
C6_Witness ==
    /\ pc = "done" /\ status = "exit1"
    /\ \E i \in Events("balanceRead") :
          /\ log[i].b > 0 /\ log[i].a = log[i].b - 1
          /\ i = Len(log)

\* a run whose balance equals the amount and which went on to sign
C6_EqualPasses ==
    \E i \in Events("balanceRead"), j \in Events("sign") :
        log[i].a = log[i].b /\ log[i].b > 0 /\ i < j

\* C7: with an allowance at or above the required amount ensureTokenApproval
\* only reads the allowance and returns without a transaction hash; an approve
\* is sent only straight after a read that found the allowance too low.
C7_NoApprovalWhenCovered ==
    /\ \A i \in Events("allowanceRead") :
          log[i].a >= log[i].b =>
              /\ i < Len(log)
              /\ log[i + 1] = Ev("ensureReturned", log[i].who, 0, 0, "noTxHash")
    /\ \A j \in Events("approveSent") :
          /\ j > 1
          /\ log[j - 1].op = "allowanceRead"
          /\ log[j - 1].who = log[j].who
          /\ log[j - 1].a < log[j - 1].b

\* the allowance equals the amount, no approve was sent and the order is signed
C7_Witness ==
    /\ Events("approveSent") = {}
    /\ txHash = FALSE
    /\ \E i \in Events("allowanceRead"), j \in Events("sign") :
          /\ log[i].a = log[i].b /\ log[i].b > 0
          /\ i < j

\* C8: with an allowance below the required amount ensureTokenApproval sends
\* one approve, to the limit-order protocol contract, and returns its hash only
\* after the receipt; the caller signs or fills only after that return.
C8_ApproveOnceThenWait ==
    /\ \A k \in Events("ensureReturned") :
          log[k].x = "txHash" =>
              /\ k > 3
              /\ log[k - 1].op = "approvalReceipt" /\ log[k - 1].who = log[k].who
              /\ log[k - 2].op = "approveSent" /\ log[k - 2].who = log[k].who
              /\ log[k - 2].x = ProtocolContract
              /\ log[k - 3].op = "allowanceRead" /\ log[k - 3].who = log[k].who
              /\ log[k - 3].a < log[k - 3].b
              /\ Cardinality({j \in Events("approveSent") : log[j].who = log[k].who}) = 1
    /\ \A i \in Events("allowanceRead") :
          (log[i].a < log[i].b /\ i < Len(log)) =>
              /\ log[i + 1].op = "approveSent"
              /\ log[i + 1].x = ProtocolContract
    /\ \A j \in Spends, i \in Events("allowanceRead") :
          (i < j /\ log[i].who = log[j].who) =>
              \E k \in Events("ensureReturned") :
                  i < k /\ k < j /\ log[k].who = log[j].who

\* the allowance was too low, one approve was mined and the order then signed
C8_Witness ==
    /\ Cardinality(Events("approveSent")) = 1
    /\ \E i \in Events("allowanceRead"), k \in Events("ensureReturned"),
          j \in Events("sign") :
          /\ log[i].a < log[i].b
          /\ log[k].x = "txHash"
          /\ i < k /\ k < j

\* C9: whenever the maker signs or the taker sends the fill, the allowance on
\* the chain is at least the amount, whatever the approval's receipt says and
\* whatever options generateOrder was called with.
C9_AllowanceCoversAtSpend ==
    \A j \in Spends : log[j].b >= log[j].a

\* the same, restricted to runs whose approval was mined successfully or not
\* needed, and which did not skip the approval
C9_CoversUnlessRevertedOrSkipped ==
    (/\ ~opts.skipApproval
     /\ \A r \in Events("approvalReceipt") : log[r].x = "success")
        => C9_AllowanceCoversAtSpend

\* C10: every approve sent sets an allowance at or above the one read just
\* before it (the maximum uint256), and no step lowers an allowance.
C10_ApprovalsOnlyIncrease ==
    /\ [](\A j \in Events("approveSent") :
             /\ log[j].a >= log[j].b
             /\ log[j].a = maxUint256)
    /\ [][\A p \in Parties : allowance'[p] >= allowance[p]]_vars

\* an approve over a non-zero allowance has been mined
C10_Witness ==
    \E j \in Events("approveSent") :
        /\ log[j].b > 0
        /\ j + 1 \in Events("approvalReceipt")
        /\ log[j + 1].x = "success"
        /\ allowance[log[j].who] = maxUint256

\* did the second eth_call bring a payload?
PayloadObtained(rpc) ==
    rpc.refetch.kind = "data" /\ rpc.refetch.data.defined /\ rpc.refetch.data.text # <<>>

\* C11: simulateFill makes one read-only call from the taker and succeeds
\* exactly when it does not fail; after a failure it asks again with the same
\* from, to and data, and returns the decoded reason when a payload came back,
\* the first error's message otherwise; a failure always carries an error.
C11_SimulateFill ==
    \A k \in Events("simulated") :
        LET rpc == log[k].a
            res == log[k].b
            calls == {i \in Events("simCall") : i < k}
        IN  /\ Cardinality(calls) = 1
            /\ \A i \in calls : log[i].who = "taker" /\ log[i].x = ProtocolContract
            /\ res.success = ~rpc.callFails
            /\ res.success => log[k - 1].op = "simCall"
            /\ ~res.success =>
                  /\ res.error.defined
                  /\ log[k - 1].op = "ethCall" /\ log[k - 2].op = "simCall"
                  /\ [log[k - 1] EXCEPT !.op = "simCall"] = log[k - 2]
                  /\ res.error.text = IF PayloadObtained(rpc)
                                      THEN decodeRevertError(rpc.refetch.data)
                                      ELSE rpc.message

\* a failed simulation whose second call itself failed reports the first message
C11_Witness ==
    \E k \in Events("simulated") :
        /\ log[k].a.callFails /\ log[k].a.refetch.kind = "threw"
        /\ log[k].b = [success |-> FALSE, error |-> Defined(ExecutionRevertedText)]
        /\ status = "exit1"

\* a failed simulation with a payload reports the decoded protocol error
C11_DecodedReached ==
    \E k \in Events("simulated") :
        log[k].b.error = Defined(ProtocolErrors[1].name \o <<"(", ")">>)

\* C13: executeFill returns success only after a fill transaction was sent and
\* its receipt came back with status success; every other return is a failure
\* with a non-empty error; the hash is returned whenever a receipt came back.
C13_ExecuteFillOutcome ==
    result.fn = "executeFill" =>
        LET receipts == Events("fillReceipt")
        IN  /\ result.success =>
                  /\ Events("fillSent") # {}
                  /\ \E i \in receipts : log[i].x = "success" /\ i = Len(log)
                  /\ result.txHash
            /\ ~result.success => result.hasError /\ result.error # ""
            /\ receipts # {} => result.txHash
            /\ (\E i \in receipts : log[i].x = "reverted") => ~result.success
            /\ pc = "done" /\ status = IF result.success THEN "exit0" ELSE "exit1"

\* a fill that was mined but reverted: a failure that carries the hash
C13_Witness ==
    /\ result = FillResult(FALSE, TRUE, "Transaction reverted")
    /\ \E i \in Events("fillReceipt") : log[i].x = "reverted"

\* each of the other failures is returned too
C13_FailuresReached ==
    result.fn = "executeFill" /\ ~result.txHash /\ ~result.success

\* C14: the gas limit of the fill is the estimate plus its tenth, rounded down:
\* never below the estimate and gas * 10 >= estimate * 11 - 9.
C14_GasInflatedByTenth ==
    \A j \in Events("fillSent") :
        LET gas == log[j].x
            gasEstimate == log[j - 1].a
        IN  /\ log[j - 1].op = "gasEstimated"
            /\ gasEstimate >= 0
            /\ gas = gasEstimate + (gasEstimate \div 10)
            /\ gas >= gasEstimate
            /\ gas * 10 >= gasEstimate * 11 - 9
            /\ gas * 10 <= gasEstimate * 11

\* an estimate of 19 went out with a gas limit of 20
C14_Witness ==
    \E j \in Events("fillSent") : log[j - 1].a = 19 /\ log[j].x = 20

\* the quote a signed order was made from: the last one before the signing
QuoteBefore(j) ==
    log[CHOOSE i \in Events("quote") :
            i < j /\ \A k \in Events("quote") : k < j => k <= i]

\* BigInt(text) of a decimal text
ParseAmount(s) == DecTextValue(s)

\* C16: the order put out at signing carries the quote's inputAmount and
\* outputAmount as decimal texts, which read back to exactly those amounts,
\* whatever amount was typed.
C16_OrderAmountsAreTheQuote ==
    \A j \in Spends \cap Events("sign") :
        /\ \E i \in Events("quote") : i < j
        /\ LET q == QuoteBefore(j)
               out == log[j].x.order
           IN  /\ out.makingAmount = NatToString(q.a)
               /\ out.takingAmount = NatToString(q.b)
               /\ IsDecText(out.makingAmount) /\ IsDecText(out.takingAmount)
               /\ ParseAmount(out.makingAmount) = q.a
               /\ ParseAmount(out.takingAmount) = q.b

\* an order signed from a remote quote whose input differs from the amount typed
C16_Witness ==
    \E j \in Events("sign") :
        /\ \E i \in Events("quote") : i < j
        /\ QuoteBefore(j).x = "api"
        /\ QuoteBefore(j).a # raw
        /\ log[j].x.order.makingAmount = NatToString(QuoteBefore(j).a)
        /\ QuoteBefore(j).b > 0

\* C17: every order that gets signed has makingAmount > 0 and takingAmount > 0,
\* whatever is typed and whatever the quote provider returns.
C17_SignedAmountsPositive ==
    \A j \in Events("sign") :
        ParseAmount(log[j].x.order.makingAmount) > 0 /\ ParseAmount(log[j].x.order.takingAmount) > 0

\* the same for the hardcoded rate alone, which multiplies a positive amount
C17_PositiveAtFixedRate ==
    \A j \in Events("sign") :
        QuoteBefore(j).x = "fixed" =>
            /\ ParseAmount(log[j].x.order.makingAmount) > 0
            /\ ParseAmount(log[j].x.order.takingAmount) > 0

\* the ends of a run that are not failures
NotAFailure == {"", "Order cancelled"}
IsScript == wf # "generateOrder"

\* C19: a script run in which a step failed exits with a non-zero status,
\* the filler's refusal of the submitted order included.
C19_FailureExitsNonZero ==
    (IsScript /\ pc = "done" /\ err \notin NotAFailure) => status = "exit1"

\* the same without the submission to the filler
C19_NonZeroExceptSubmission ==
    (IsScript /\ pc = "done" /\ err \notin NotAFailure /\ Events("submit") = {})
        => status = "exit1"

\* C20: an amount that parses to zero or less is reported and the process
\* exits with a non-zero status; no quote is asked, no balance read and
\* nothing signed.
C20_BadAmountExits ==
    \A i \in Events("amountRejected") :
        /\ log[i].a <= 0
        /\ pc = "done" /\ status \in {"exit1", "threw"}
        /\ \A j \in Events("quote") \cup Events("balanceRead") \cup Events("sign") : j < i

\* the same for the workflows other than the interactive generator
C20_BadAmountExitsUnlessPrompted ==
    wf # "generate" => C20_BadAmountExits

----------------------------------------------------------------------------
(* Configuration errors.                                                   *)

\* the steps that go to the network, broadcast a transaction or sign
Contacts ==
    {i \in DOMAIN log :
        \/ log[i].op \in {"balanceRead", "allowanceRead", "approveSent",
                          "approvalReceipt", "sign", "submit", "gasEstimated",
                          "fillSent", "fillReceipt", "simCall", "ethCall"}
        \/ log[i].op = "quote" /\ log[i].x = "api"}

\* the runs that are to use the taker's key: a fill that is executed, and the
\* test that approves for the taker
UsesTakerKey == (wf \in {"fillTest", "fill"} /\ opts.execute) \/ wf = "fillShared"
UsesMakerKey == wf \in MakerScripts \cup {"fillTest", "fillShared"}

RequiredVariableAbsent ==
    \/ ~env.rpcUrl \/ ~env.fillerUrl
    \/ UsesMakerKey /\ ~env.maker
    \/ UsesTakerKey /\ ~env.taker

\* C21: a run whose environment lacks a required variable (POLYGON_RPC_URL,
\* FILLER_API_URL, MAKER_PRIVATE_KEY, or TAKER_PRIVATE_KEY where the run uses
\* it) makes no network request, broadcasts no transaction and signs no order,
\* and when it has ended it has exited with a non-zero status.
C21_MissingVariableFailsFast ==
    RequiredVariableAbsent =>
        /\ Contacts = {}
        /\ pc = "done" => status = "exit1"

\* the same for every variable but the taker's key in the self-generating fill
\* test, where getTakerPrivateKey is only called once the order is made
C21_FailsFastButLateTakerKey ==
    (RequiredVariableAbsent /\ ~(wf = "fillTest" /\ env.maker /\ ConfigLoads)) =>
        /\ Contacts = {}
        /\ pc = "done" => status = "exit1"

\* the late report: the test order was signed before the missing key is reported
C21_LateReportReached ==
    /\ wf = "fillTest" /\ opts.execute /\ ~env.taker
    /\ pc = "done" /\ status = "exit1"
    /\ Events("sign") # {}

----------------------------------------------------------------------------
(* The order of the steps of a maker run.                                  *)

\* the place of a step in quote -> balance check -> allowance check and
\* approval -> sign -> submit -> print (0: not one of the steps)
StepRank(e) ==
    CASE e.op = "quote" -> 1
      [] e.op = "balanceRead" -> 2
      [] e.op = "confirm" -> 3
      [] e.op = "allowanceRead" -> 4
      [] e.op = "approveSent" -> 5
      [] e.op = "approvalReceipt" -> 6
      [] e.op = "ensureReturned" -> 7
      [] e.op = "sign" -> 8
      [] e.op = "submit" -> 9
      [] e.op = "print" -> 10
      [] OTHER -> 0

\* the steps that every later step needs to have happened
NeededBefore(rank) ==
    {r \in {1, 2, 3, 4, 7, 8} : r < rank}
        \cup (IF rank = 10 /\ SubmitsToFiller(wf) THEN {9} ELSE {})

\* did the step recorded at i succeed?  A step that threw left no event.
Succeeded(i) ==
    CASE log[i].op = "balanceRead" -> log[i].a >= log[i].b
      [] log[i].op = "confirm" -> log[i].x = "yes"
      [] log[i].op = "approvalReceipt" -> log[i].x = "success"
      [] log[i].op = "submit" -> log[i].x = "accepted"
      [] OTHER -> TRUE

\* the same, but a step counts as done once its call has returned
Returned(i) ==
    CASE log[i].op = "balanceRead" -> log[i].a >= log[i].b
      [] log[i].op = "confirm" -> log[i].x = "yes"
      [] OTHER -> TRUE

\* C22: in a maker order-generation run the steps happen in the order quote,
\* balance check, allowance check and approval, sign, submit (where the
\* script submits), print; each at most once, and each only after every
\* earlier step has happened and succeeded.
C22_StepsInOrderAfterSuccess ==
    wf \in MakerScripts =>
        \A j \in DOMAIN log : StepRank(log[j]) > 0 =>
            /\ \A i \in 1..(j - 1) : StepRank(log[i]) > 0 =>
                    StepRank(log[i]) < StepRank(log[j]) /\ Succeeded(i)
            /\ \A r \in NeededBefore(StepRank(log[j])) :
                    \E i \in 1..(j - 1) : StepRank(log[i]) = r

\* the order and the at-most-once hold; what does not gate the next step is
\* the status of the approval's receipt and the filler's answer
C22_StepsInOrderAfterReturn ==
    wf \in MakerScripts =>
        \A j \in DOMAIN log : StepRank(log[j]) > 0 =>
            /\ \A i \in 1..(j - 1) : StepRank(log[i]) > 0 =>
                    StepRank(log[i]) < StepRank(log[j]) /\ Returned(i)
            /\ \A r \in NeededBefore(StepRank(log[j])) :
                    \E i \in 1..(j - 1) : StepRank(log[i]) = r

\* an order printed as the output of a run whose submission the filler refused
C22_PrintedAfterRefusal ==
    /\ SubmitsToFiller(wf) /\ pc = "done"
    /\ \E i \in Events("submit"), j \in Events("print") : i < j /\ log[i].x = "rejected"

----------------------------------------------------------------------------
(* Balance checks before signing and filling.                              *)

\* a balance check of the party, before step j, that found at least amount
BalanceFoundBefore(j, who, amount) ==
    \E i \in Events("balanceRead") :
        /\ i < j /\ log[i].who = who
        /\ log[i].b = amount /\ log[i].a >= amount

\* C23: every signing is preceded in its run by a check of the maker's balance
\* that found at least makingAmount, and every fill attempt of a taker,
\* simulated or executed, by a check of the taker's balance that found at
\* least takingAmount.
C23_BalanceCheckedBeforeSignAndFill ==
    /\ \A j \in Events("sign") : BalanceFoundBefore(j, "maker", log[j].a)
    /\ \A j \in Events("fillSent") \cup Events("simCall") :
            BalanceFoundBefore(j, "taker", log[j].a)

\* the same for signing and for the fills that are executed
C23_BalanceCheckedBeforeSignAndExecute ==
    /\ \A j \in Events("sign") : BalanceFoundBefore(j, "maker", log[j].a)
    /\ \A j \in Events("fillSent") : BalanceFoundBefore(j, "taker", log[j].a)

\* a simulated fill in a run that never read the taker's balance
C23_SimulatedUnchecked ==
    /\ Events("simCall") # {}
    /\ \A i \in Events("balanceRead") : log[i].who # "taker"

----------------------------------------------------------------------------
(* The taker asset of a loaded order.                                      *)

\* the number an address text stands for
AddressValue(a) == BigIntOfHex(Slice(a, 2, Len(a)))

\* is the order's takerAsset, as a number, the address of a token of the table?
TakerAssetIsAToken ==
    \E k \in DOMAIN TOKENS : AddressValue(TOKENS[k].address) = AddressValue(order.takerAsset)

\* what executeFill does with the taker's money
TakerChainSteps ==
    {i \in DOMAIN log :
        /\ log[i].who = "taker"
        /\ log[i].op \in {"balanceRead", "allowanceRead", "approveSent",
                          "approvalReceipt", "gasEstimated", "fillSent", "fillReceipt"}}

\* C24: in fill.ts with --execute, an order whose takerAsset is not the
\* address of a token of the table (letter case disregarded) makes executeFill
\* return success = false with an error naming the asset as 0x and 40
\* hexadecimal digits, without a balance or allowance read and without a
\* transaction, and the script exits with 1; an order whose takerAsset is a
\* token's address in any letter case is not refused.
C24_UnknownTakerAsset ==
    (wf = "fill" /\ opts.execute /\ order.present) =>
        /\ ~TakerAssetIsAToken =>
              /\ TakerChainSteps = {}
              /\ pc = "done" /\ env.taker =>
                    /\ result = FillResult(FALSE, FALSE, "Unknown taker asset")
                    /\ status = "exit1"
                    /\ Events("unknownTakerAsset") = {Len(log)}
        /\ \A i \in Events("unknownTakerAsset") :
              /\ ~TakerAssetIsAToken
              /\ Len(log[i].x) = Len(Prefix0x) + AddressHexLen
              /\ StartsWith(log[i].x, Prefix0x)
              /\ AddressValue(log[i].x) = AddressValue(order.takerAsset)

\* an unknown asset was refused, and it was one that needed padding
C24_Witness ==
    /\ wf = "fill" /\ opts.execute /\ pc = "done"
    /\ order.takerAsset = Prefix0x \o <<"0", "0", "1">>
    /\ result = FillResult(FALSE, FALSE, "Unknown taker asset")

\* BRLA written in uppercase digits was taken for BRLA
C24_UppercaseAccepted ==
    /\ wf = "fill" /\ opts.execute
    /\ order.present /\ order.takerAsset \notin {BrlaAddress, ToLowerCase(BrlaAddress)}
    /\ TakerAssetIsAToken
    /\ Events("balanceRead") # {}

----------------------------------------------------------------------------
(* Simulation only.                                                        *)

FillScripts == {"fill", "fillTest", "fillShared"}
Broadcasts == Events("approveSent") \cup Events("fillSent")

\* C25: a run of a fill script without --execute broadcasts no transaction,
\* neither an approval nor a fill.
C25_SimulationBroadcastsNothing ==
    (wf \in FillScripts /\ ~opts.execute) => Broadcasts = {}

\* the same for fill.ts alone, and no fill transaction in any of the scripts
C25_FillScriptBroadcastsNothing ==
    /\ (wf = "fill" /\ ~opts.execute) => Broadcasts = {}
    /\ (wf \in FillScripts /\ ~opts.execute) => Events("fillSent") = {}

\* a simulation that came after an approval transaction of the same run
C25_ApprovedThenSimulated ==
    /\ wf \in FillScripts /\ ~opts.execute
    /\ \E i \in Events("approveSent"), j \in Events("simCall") : i < j

----------------------------------------------------------------------------
(* The taker's key in fill.ts.                                             *)

\* a run of fill.ts without --execute and without TAKER_PRIVATE_KEY, on a
\* loaded order whose signature has the right length
KeylessSimulation ==
    /\ wf = "fill" /\ ~opts.execute /\ ~env.taker
    /\ order.present /\ order.sigOk

\* C26: fill.ts needs TAKER_PRIVATE_KEY only with --execute: a run without
\* --execute and without the key, on a valid order, has made the simulation
\* call by the time it ends.
C26_SimulatesWithoutTakerKey ==
    (KeylessSimulation /\ pc = "done") => Events("simCall") # {}

\* what the script does instead: without the key nothing is simulated and the
\* run ends with status 1
C26_NoSimulationWithoutTakerKey ==
    KeylessSimulation =>
        /\ Events("simCall") = {}
        /\ pc = "done" => status = "exit1"

C26_KeylessRunEnded ==
    /\ KeylessSimulation /\ pc = "done"
    /\ err = "TAKER_PRIVATE_KEY environment variable is required"

----------------------------------------------------------------------------
(* The order hash.                                                         *)

\* C27: the orderHash of a signed order is 0x followed by the salt written as
\* 64 zero-padded hexadecimal digits; it is the same for every maker,
\* receiver, amount and traits with that salt, so it is not a hash of the
\* order; formatOrderOutput passes it on unchanged.
C27_OrderHashIsPaddedSalt ==
    fnIn.orderHash # <<>> =>
        LET digits == SubSeq(fnIn.orderHash, 3, Len(fnIn.orderHash))
        IN  /\ StartsWith(fnIn.orderHash, Prefix0x)
            /\ Len(digits) = HashHexLen
            /\ \A i \in 1..Len(digits) : \E k \in 1..16 : HexLower[k] = digits[i]
            /\ HexTextValue(digits) = fnIn.orderData.salt
            /\ \A maker \in DrawnAddresses, receiver \in DrawnAddresses,
                  m \in DrawnMakings, k \in DrawnTakings, traits \in DrawnTraits :
                    computeOrderHash([fnIn.orderData EXCEPT
                                        !.maker = maker, !.receiver = receiver,
                                        !.makingAmount = m, !.takingAmount = k,
                                        !.makerTraits = traits]) = fnIn.orderHash
            /\ fnOut.output # NoResult => fnOut.output.orderHash = fnIn.orderHash

\* the hash of an order with a salt of several digits was put out
C27_Witness ==
    /\ fnIn.orderHash # <<>>
    /\ fnIn.orderData.salt > 16 * 16
    /\ fnOut.output # NoResult
    /\ fnOut.output.orderHash = Prefix0x \o Rep("0", HashHexLen - 4) \o <<"a", "b", "c", "d">>

----------------------------------------------------------------------------
(* The confirmation.                                                       *)

\* the answers that confirm: y or yes in any letter case, blanks around them
SaysYes(typed) ==
    \E word \in {<<"y">>, <<"y", "e", "s">>} :
        \E before \in 0..Len(typed), after \in 0..Len(typed) :
            /\ Len(typed) = before + Len(word) + after
            /\ \A i \in 1..Len(typed) :
                  IF i <= before \/ i > before + Len(word)
                  THEN typed[i] = " "
                  ELSE \E k \in DOMAIN LowerLetters :
                          /\ LowerLetters[k] = word[i - before]
                          /\ typed[i] \in {LowerLetters[k], UpperLetters[k]}

AfterConfirmation ==
    Events("allowanceRead") \cup Events("approveSent") \cup Events("sign")
        \cup Events("submit") \cup Events("print")

\* a balance check of the maker that passed, before step j
BalancePassedBefore(j) ==
    \E i \in Events("balanceRead") : i < j /\ log[i].a >= log[i].b

\* what an answer other than y or yes leads to
CancelledUnlessYes ==
    \A j \in Events("confirm") :
        IF SaysYes(log[j].a)
        THEN log[j].x = "yes" /\ err # "Order cancelled"
        ELSE /\ log[j].x = "no"
             /\ j = Len(log) /\ AfterConfirmation = {}
             /\ pc = "done" /\ status = "exit0" /\ err = "Order cancelled"

\* C28: in the order-generation scripts an answer other than y or yes (any
\* letter case, blanks trimmed; the empty answer too) ends the run with
\* "Order cancelled" and status 0, with no allowance read, approval, signing
\* or submission; and the confirmation is asked only after the balance check
\* has passed.
C28_CancelledUnlessConfirmed ==
    wf \in MakerScripts =>
        /\ CancelledUnlessYes
        /\ \A j \in Events("confirmAsked") : BalancePassedBefore(j)

\* the same with "asked" weakened to "acted on" for the script that reads all
\* of its input first: its answer is used only after the balance check passed
C28_CancelledUnlessYesAndUsedAfterBalance ==
    wf \in MakerScripts =>
        /\ CancelledUnlessYes
        /\ \A j \in Events("confirm") : BalancePassedBefore(j)
        /\ ~AskedUpFront => \A j \in Events("confirmAsked") : BalancePassedBefore(j)

\* the question was asked on a terminal before the quote was fetched
C28_AskedBeforeQuote ==
    /\ wf = "generateSubmit" /\ opts.tty
    /\ \E i \in Events("confirmAsked"), j \in Events("quote") : i < j

\* an order was cancelled by an empty answer
C28_EmptyAnswerCancelled ==
    /\ wf \in MakerScripts /\ pc = "done" /\ err = "Order cancelled"
    /\ \E j \in Events("confirm") : log[j].a = <<>>

----------------------------------------------------------------------------
(* A malformed signature in execute mode.                                  *)

\* an executed fill of a loaded order whose signature has the wrong length
MalformedExecuted == opts.execute /\ order.present /\ ~order.sigOk

TakerBroadcasts == {i \in Broadcasts : log[i].who = "taker"}

\* C29: in execute mode an order whose signature is malformed is rejected
\* before any transaction is broadcast: executeFill sends neither an approval
\* nor a fill transaction.
C29_MalformedSignatureSendsNothing ==
    MalformedExecuted => TakerBroadcasts = {}

\* what holds: no fill transaction is sent, and the run ends with status 1
C29_MalformedSignatureSendsNoFill ==
    MalformedExecuted =>
        /\ Events("fillSent") = {} /\ Events("gasEstimated") = {}
        /\ pc = "done" => status = "exit1"

\* the signature was rejected after the approval had been sent and mined
C29_RejectedAfterApproval ==
    /\ MalformedExecuted
    /\ pc = "done" /\ err = "Invalid signature length"
    /\ Events("approveSent") # {} /\ Events("approvalReceipt") # {}

----------------------------------------------------------------------------
(* executeOrder: the signed order is posted to the filler.                 *)
(* SpecExecute: executeOrder applied to an order and to what the filler    *)
(* may answer: an HTTP status and a body that is a JSON object or not JSON *)
(* at all.  A field of the body is undefined or holds a text.              *)

BadRequestText == <<"B", "a", "d", " ", "R", "e", "q", "u", "e", "s", "t">>
ColonSpace == <<":", " ">>

\* a ?? b
Coalesce(a, b) == IF a.defined THEN a ELSE b

\* the bodies drawn: every mix of absent and present fields; details may be
\* present and empty
DrawnBodies ==
    [success : BOOLEAN,
     error : {Undefined, Defined(<<"E">>)},
     message : {Undefined, Defined(<<"M">>)},
     details : {Undefined, Defined(<<>>), Defined(<<"D">>)},
     extraInfo : {Undefined, Defined(<<"X">>)}]

NoBody ==
    [success |-> FALSE, error |-> Undefined, message |-> Undefined,
     details |-> Undefined, extraInfo |-> Undefined]

DrawnResponses ==
    [ok : BOOLEAN, statusText : {BadRequestText}, json : {TRUE}, body : DrawnBodies]
        \cup [ok : BOOLEAN, statusText : {BadRequestText}, json : {FALSE}, body : {NoBody}]

NotCalled == [stage |-> "start", sent |-> FALSE, returned |-> NoResult]

\* executeOrder after the fetch: response.json(), then if (!response.ok)
executeOrderAnswer(response) ==
    IF ~response.json
    THEN [kind |-> "threw", error |-> "SyntaxError"]
    ELSE IF ~response.ok
    THEN LET data == response.body
             errorMsg == Coalesce(data.error,
                                  Coalesce(data.message, Defined(response.statusText)))
             details == Coalesce(data.details, data.extraInfo)
         IN  [kind |-> "failure", success |-> FALSE,
              message |-> IF Truthy(details)
                          THEN errorMsg.text \o ColonSpace \o details.text
                          ELSE errorMsg.text]
    ELSE [kind |-> "body", body |-> response.body]

InitExecute ==
    /\ \E sig \in DrawnSignatures, response \in DrawnResponses :
          fnIn = [orderOutput |->
                      [formatOrderOutput(SignedOrderOf(1, RateNumerator))
                          EXCEPT !.signature = sig],
                  response |-> response]
    /\ fnOut = NotCalled
    /\ IdleSig /\ IdleFmt /\ IdleFlow

\* const request = buildExecuteRequest(orderOutput); await fetch(..., POST)
PostOrder ==
    /\ fnOut.stage = "start"
    /\ LET request == buildExecuteRequest(fnIn.orderOutput)
       IN  fnOut' = IF request.threw
                    THEN [stage |-> "done", sent |-> FALSE,
                          returned |-> [kind |-> "threw", error |-> request.error]]
                    ELSE [stage |-> "awaiting", sent |-> TRUE, returned |-> NoResult]
    /\ UNCHANGED <<fnIn, sigVars, fmtVars, flowVars>>

\* the rest of executeOrder, once the filler has answered
ReadAnswer ==
    /\ fnOut.stage = "awaiting"
    /\ fnOut' = [fnOut EXCEPT !.stage = "done",
                              !.returned = executeOrderAnswer(fnIn.response)]
    /\ UNCHANGED <<fnIn, sigVars, fmtVars, flowVars>>

NextExecute == PostOrder \/ ReadAnswer

SpecExecute == InitExecute /\ [][NextExecute]_vars

\* the message the failure is to carry: the first defined of error, message
\* and the status text, then ": " and the details where details or extraInfo
\* is present
FirstDefinedMessage(response) ==
    IF response.body.error.defined THEN response.body.error.text
    ELSE IF response.body.message.defined THEN response.body.message.text
    ELSE response.statusText

DetailsSuffix(response) ==
    IF response.body.details.defined THEN ColonSpace \o response.body.details.text
    ELSE IF response.body.extraInfo.defined THEN ColonSpace \o response.body.extraInfo.text
    ELSE <<>>

SignatureMalformed == parseSignatureToCompact(fnIn.orderOutput.signature).kind # "ok"

AnsweredAsStated ==
    IF ~fnIn.response.ok
    THEN /\ fnOut.returned.kind = "failure"
         /\ fnOut.returned.success = FALSE
         /\ fnOut.returned.message =
                FirstDefinedMessage(fnIn.response) \o DetailsSuffix(fnIn.response)
    ELSE /\ fnOut.returned.kind = "body"
         /\ fnOut.returned.body = fnIn.response.body

\* C30: executeOrder sends no request when the signature is malformed (it
\* throws first); a non-OK status makes it return success = false whatever
\* the body's success field, with the message made of the first defined of
\* error, message and the status text, and of ": " and the details when
\* details or extraInfo is present; an OK status returns the body unchanged.
C30_ExecuteOrderAnswers ==
    /\ SignatureMalformed =>
          /\ ~fnOut.sent
          /\ fnOut.stage = "done" => fnOut.returned.kind = "threw"
    /\ (~SignatureMalformed /\ fnOut.stage = "done") => AnsweredAsStated

\* the same for answers whose body is a JSON object and whose details, where
\* present, are not empty
C30_ExecuteOrderAnswersJsonObject ==
    /\ SignatureMalformed =>
          /\ ~fnOut.sent
          /\ fnOut.stage = "done" => fnOut.returned.kind = "threw"
    /\ (/\ ~SignatureMalformed /\ fnOut.stage = "done"
        /\ fnIn.response.json
        /\ fnIn.response.body.details # Defined(<<>>)) => AnsweredAsStated

\* a non-OK answer whose body is not JSON made executeOrder throw
C30_ThrewOnErrorPage ==
    /\ ~SignatureMalformed /\ fnOut.stage = "done"
    /\ ~fnIn.response.ok /\ ~fnIn.response.json
    /\ fnOut.returned.kind = "threw"

\* empty details hid the extraInfo that came with them
C30_ExtraInfoDropped ==
    /\ fnOut.stage = "done" /\ fnOut.returned.kind = "failure"
    /\ fnIn.response.body.extraInfo.defined
    /\ fnOut.returned.message = <<"E">>

====
